---- MODULE Spec2Model ----
(***************************************************************************)
(* Model of the Rust-Database storage engine (src/src/db.rs, codec.rs):    *)
(* an append-only log of checksummed frames, an in-memory index from key   *)
(* to (offset, size), tombstone deletes, compaction, and the three locks   *)
(* that let clones of the engine handle be used from several threads.      *)
(*                                                                         *)
(* The log is modelled at the byte level: a file is a sequence of bytes    *)
(* (0..255), a frame is what DataEntry::to_bytes produces, a read is what  *)
(* decode_buffer computes from the bytes found at (offset, size).          *)
(* Source indices are 0-based; TLA+ sequences are 1-based, so input[i] of  *)
(* the source is written input[i + 1] here.                                *)
(***************************************************************************)
EXTENDS Integers, Sequences, FiniteSets, TLC

(***************************************************************************)
(* Program constants.                                                      *)
(***************************************************************************)
\* codec.rs:157  let window = 4095usize;
Window == 4095
\* codec.rs:158  let max_len = 255usize;
MaxMatchLen == 255
\* codec.rs:88   literals.len() == u8::MAX as usize
MaxLiteralRun == 255
\* codec.rs:78   if len >= 3
MinMatchLen == 3
\* db.rs:207     if buffer.len() < 9  /  db.rs:455  let mut header = [0u8; 9];
HeaderLen == 9
\* db.rs:226     9 + key_len + value_len + 4
ChecksumLen == 4

(***************************************************************************)
(* Bounds of the model.                                                    *)
(***************************************************************************)
\* number of public operations one behaviour of the sequential engine runs
MaxOps == 3
\* number of public operations the threads of the concurrent engine run
MaxConcOps == 3
\* number of set / delete / compact calls the threads of the writers-only
\* engine run
MaxWrites == 2
\* the nonzero max_size the configuration may carry (0 is always offered)
SmallMaxSize == 40
\* number of public operations run on a file that can be damaged
MaxFaultOps == 1
\* longest byte string handed to the codecs
MaxInputLen == 8
\* longest encoded stream handed to the value decoder
MaxStreamLen == 7
\* public operations started in a behaviour of the lock-level engine
MaxLockOps == 2

(***************************************************************************)
(* Inputs: keys and values are byte strings.                               *)
(***************************************************************************)
K1 == <<107>>
K2 == <<1>>
Keys == {K1, K2}
\* the empty value, a one-byte value, and a run that encodes to a literal
\* followed by an overlapping back-reference
Values == {<< >>, <<7>>, <<7, 7, 7, 7>>}
MaxSizes == {0, SmallMaxSize}
Threads == {1, 2}

(***************************************************************************)
(* Results: Result<Option<Vec<u8>>, DatabaseError> as a record.            *)
(***************************************************************************)
SomeVal(v) == [tag |-> "Some", val |-> v, err |-> "-"]
Absent == [tag |-> "None", val |-> << >>, err |-> "-"]
Failure(e) == [tag |-> "Err", val |-> << >>, err |-> e]

Min(a, b) == IF a < b THEN a ELSE b
Max(a, b) == IF a > b THEN a ELSE b

\* input[from..to] of the source (0-based, `to` exclusive)
Slice(s, from, to) == SubSeq(s, from + 1, to)

(***************************************************************************)
(* Big-endian u32 / u16 and the additive checksum.                         *)
(***************************************************************************)
\* u32::to_be_bytes
BE32(n) ==
    << (n \div 16777216) % 256, (n \div 65536) % 256, (n \div 256) % 256, n % 256 >>

\* u32::from_be_bytes
FromBE32(b) == b[1] * 16777216 + b[2] * 65536 + b[3] * 256 + b[4]

\* (dist as u16).to_be_bytes()
BE16(n) == << ((n % 65536) \div 256), n % 256 >>

\* `n as u32` for a length.  TLC's integers are 32-bit, and every length the
\* model computes is below 2^31, where the cast changes nothing.
AsU32(n) == n

\* a faulty sum that wraps at 2^8; ChecksumDetectsChange is sensitive to the
\* difference
WrappingAddU8(acc, byte) == <<0, (acc[2] + byte) % 256>>

\* A u32 checksum is kept as its two 16-bit halves <<high, low>>, so that the
\* sum wraps modulo 2^32 exactly as wrapping_add does.
\* checksum.wrapping_add(byte as u32)
WrappingAdd(acc, byte) ==
    LET low == acc[2] + byte IN
    << (acc[1] + (low \div 65536)) % 65536, low % 65536 >>

RECURSIVE SumBytes(_, _)
\* the for byte in ... { sum = sum.wrapping_add(..) } loops, from `acc`
SumBytes(bytes, acc) ==
    IF bytes = << >> THEN acc
    ELSE SumBytes(Tail(bytes), WrappingAdd(acc, Head(bytes)))

\* the checksum of a byte string (codec.rs:44-47, db.rs:241-244)
Checksum(bytes) == SumBytes(bytes, <<0, 0>>)

\* checksum.to_be_bytes()
ChecksumBytes(c) == << c[1] \div 256, c[1] % 256, c[2] \div 256, c[2] % 256 >>

\* u32::from_be_bytes of a stored checksum
StoredChecksum(b) == << b[1] * 256 + b[2], b[3] * 256 + b[4] >>

(***************************************************************************)
(* Value codec (codec.rs): single-window LZ77.                             *)
(***************************************************************************)
RECURSIVE MatchLenFrom(_, _, _, _)
\* the inner while of find_longest_match: the length of the common prefix of
\* input[j..] and input[pos..], capped at max_len and at the end of the input
MatchLenFrom(input, j, pos, len) ==
    IF /\ len < MaxMatchLen
       /\ pos + len < Len(input)
       /\ input[j + len + 1] = input[pos + len + 1]
    THEN MatchLenFrom(input, j, pos, len + 1)
    ELSE len

\* the test that lets a candidate replace the best match found so far
BetterMatch(len, bestLen) == len > bestLen

RECURSIVE ScanWindow(_, _, _, _, _)
\* the for j in start..pos loop of find_longest_match, from j on
ScanWindow(input, pos, j, bestDist, bestLen) ==
    IF j >= pos THEN <<bestDist, bestLen>>
    ELSE LET len == MatchLenFrom(input, j, pos, 0) IN
         IF BetterMatch(len, bestLen)
         THEN IF len = MaxMatchLen
              THEN <<pos - j, len>>
              ELSE ScanWindow(input, pos, j + 1, pos - j, len)
         ELSE ScanWindow(input, pos, j + 1, bestDist, bestLen)

\* find_longest_match(input, pos) = (best_dist, best_len)
FindLongestMatch(input, pos) ==
    ScanWindow(input, pos, Max(pos - Window, 0), 0, 0)

\* emit_literals: tag 0, the run length, the run
EmitLiterals(out, literals) ==
    out \o <<0, Len(literals) % 256>> \o literals

RECURSIVE EncodeFrom(_, _, _, _)
\* the while i < input.len() loop of lz77_encode and the final flush
EncodeFrom(input, i, out, literals) ==
    IF i >= Len(input)
    THEN IF literals # << >> THEN EmitLiterals(out, literals) ELSE out
    ELSE LET m == FindLongestMatch(input, i)
             dist == m[1]
             len == m[2]
         IN IF len >= MinMatchLen
            THEN LET flushed == IF literals # << >>
                                THEN EmitLiterals(out, literals) ELSE out
                 IN EncodeFrom(input, i + len,
                               flushed \o <<1>> \o BE16(dist) \o <<len % 256>>,
                               << >>)
            ELSE LET lits == Append(literals, input[i + 1]) IN
                 IF Len(lits) = MaxLiteralRun
                 THEN EncodeFrom(input, i + 1, EmitLiterals(out, lits), << >>)
                 ELSE EncodeFrom(input, i + 1, out, lits)

\* lz77_encode
Lz77Encode(input) ==
    IF input = << >> THEN << >> ELSE EncodeFrom(input, 0, << >>, << >>)

\* a faulty copy that reads the match from the output as it was before the
\* copy began, so that a match reaching into its own output reads zeroes;
\* ValueRoundTrips is sensitive to the difference
CopyBackNoOverlap(out, dist, len) ==
    out \o [j \in 1..len |->
               IF j <= dist THEN out[Len(out) - dist + j] ELSE 0]

RECURSIVE CopyBack(_, _, _)
\* for _ in 0..len { out.push(out[out.len() - dist]) }: byte by byte, reading
\* from the growing output
CopyBack(out, dist, len) ==
    IF len = 0 THEN out
    ELSE CopyBack(Append(out, out[Len(out) - dist + 1]), dist, len - 1)

RECURSIVE DecodeFrom(_, _, _)
\* the while i < input.len() loop of lz77_decode;
\* [ok |-> FALSE] is Err(InvalidFormat)
DecodeFrom(input, i, out) ==
    IF i >= Len(input) THEN [ok |-> TRUE, out |-> out]
    ELSE LET tag == input[i + 1]
             i1 == i + 1
         IN CASE tag = 0 ->
                   IF i1 >= Len(input) THEN [ok |-> FALSE, out |-> << >>]
                   ELSE LET len == input[i1 + 1]
                            i2 == i1 + 1
                        IN IF len = 0 \/ i2 + len > Len(input)
                           THEN [ok |-> FALSE, out |-> << >>]
                           ELSE DecodeFrom(input, i2 + len,
                                           out \o Slice(input, i2, i2 + len))
              [] tag = 1 ->
                   IF i1 + 2 >= Len(input) THEN [ok |-> FALSE, out |-> << >>]
                   ELSE LET dist == input[i1 + 1] * 256 + input[i1 + 2]
                            len == input[i1 + 3]
                        IN IF dist = 0 \/ len = 0 \/ dist > Len(out)
                           THEN [ok |-> FALSE, out |-> << >>]
                           ELSE DecodeFrom(input, i1 + 3, CopyBack(out, dist, len))
              [] OTHER -> [ok |-> FALSE, out |-> << >>]

\* a faulty decoder that returns the empty value where the stream is
\* malformed; DecoderRejectsMalformed is sensitive to the difference
Lz77DecodeLenient(input) ==
    IF input # << >> /\ DecodeFrom(input, 0, << >>).ok
    THEN DecodeFrom(input, 0, << >>)
    ELSE [ok |-> TRUE, out |-> << >>]

\* lz77_decode
Lz77Decode(input) ==
    IF input = << >> THEN [ok |-> TRUE, out |-> << >>]
    ELSE DecodeFrom(input, 0, << >>)

(***************************************************************************)
(* Record codec (codec.rs DataEntry::to_bytes).                            *)
(***************************************************************************)
DataType == 0
TombstoneType == 1

\* a faulty frame whose val_len field holds the length of the value before
\* encoding; FrameRoundTrips is sensitive to the difference
FrameBodyRawLen(kind, key, value) ==
    <<kind>> \o BE32(Len(key)) \o BE32(Len(value)) \o key \o Lz77Encode(value)

\* the frame without its trailer: kind, key_len, val_len, key, encoded value
FrameBody(kind, key, value) ==
    LET enc == Lz77Encode(value) IN
    <<kind>> \o BE32(Len(key)) \o BE32(Len(enc)) \o key \o enc

\* DataEntry::to_bytes
ToBytes(kind, key, value) ==
    LET buffer == FrameBody(kind, key, value) IN
    buffer \o ChecksumBytes(Checksum(buffer))

\* the bytes set(key, value) appends (db.rs:102-107)
SetEntry(key, value) == ToBytes(DataType, key, value)

\* a faulty delete that appends a Data frame with an empty value instead of
\* a Tombstone frame; TombstoneSemantics is sensitive to the difference
DeleteEntryAsData(key) == ToBytes(DataType, key, << >>)

\* the bytes delete(key) appends (db.rs:167-172)
DeleteEntry(key) == ToBytes(TombstoneType, key, << >>)

\* a faulty size that leaves the checksum trailer out of the frame;
\* IndexPointsAtFrames is sensitive to the difference
FrameSizeNoTrailer(bytes) == AsU32(Len(bytes) - ChecksumLen)

\* let size = bytes.len() as u32 (db.rs:108, 173, 324)
FrameSize(bytes) == AsU32(Len(bytes))

(***************************************************************************)
(* Reading one frame (db.rs decode_buffer, read_entry_value).              *)
(***************************************************************************)
\* decode_buffer(buffer, key)
DecodeBuffer(buffer, key) ==
    IF Len(buffer) < HeaderLen THEN Failure("InvalidFormat")
    ELSE IF buffer[1] = TombstoneType THEN Absent
    ELSE LET key_len == FromBE32(Slice(buffer, 1, 5))
             value_len == FromBE32(Slice(buffer, 5, 9))
             total_len == HeaderLen + key_len + value_len + ChecksumLen
             key_start == HeaderLen
             key_end == key_start + key_len
             value_start == key_end
             value_end == value_start + value_len
             checksum_start == value_end
         IN IF total_len > Len(buffer) THEN Failure("CorruptedData")
            ELSE IF Slice(buffer, key_start, key_end) # key THEN Absent
            ELSE IF Checksum(Slice(buffer, 0, value_end))
                      # StoredChecksum(Slice(buffer, checksum_start, checksum_start + 4))
                 THEN Failure("CorruptedData")
            ELSE LET decoded == Lz77Decode(Slice(buffer, value_start, value_end)) IN
                 IF decoded.ok THEN SomeVal(decoded.out)
                 ELSE Failure("InvalidFormat")

\* read_entry_value(reader, entry, key): seek to entry.offset, read_exact
\* entry.size bytes (an UnexpectedEof is an Io error), decode
ReadEntryValue(file, entry, key) ==
    IF entry.offset + entry.size > Len(file) THEN Failure("Io")
    ELSE DecodeBuffer(Slice(file, entry.offset, entry.offset + entry.size), key)

\* the index: a map from the keys it holds to IndexEntry {offset, size}
EmptyIndex == [k \in {} |-> [offset |-> 0, size |-> 0]]

\* a faulty insert that keeps the entry a key already has (the behaviour of
\* entry().or_insert); LastWriteWins is sensitive to the difference
IndexInsertIfAbsent(idx, key, entry) ==
    [k \in (DOMAIN idx) \cup {key} |-> IF k \in DOMAIN idx THEN idx[k] ELSE entry]

\* HashMap::insert
IndexInsert(idx, key, entry) ==
    [k \in (DOMAIN idx) \cup {key} |-> IF k = key THEN entry ELSE idx[k]]

\* the part of get after the index lookup: read the frame the entry names
GetAt(file, idx, key) ==
    IF key \notin DOMAIN idx THEN Absent
    ELSE ReadEntryValue(file, idx[key], key)

(***************************************************************************)
(* Log iterator (db.rs LogIter::next) and index recovery.                  *)
(***************************************************************************)
NoRecord ==
    [offset |-> 0, size |-> 0, entry_type |-> DataType, key |-> << >>,
     value_len |-> 0, checksum_ok |-> FALSE]

\* One call of LogIter::next on a reader whose file cursor is at `pos` and
\* whose reader.offset is `offset`.  tag "End" is None, "Err" is Some(Err),
\* "Rec" is Some(Ok(record)); pos and offset are the reader's afterwards.
\* A read_exact that meets the end of the file leaves the cursor at the end.
LogIterNext(file, pos, offset) ==
    IF pos + HeaderLen > Len(file)
    THEN [tag |-> "End", err |-> "-", rec |-> NoRecord,
          pos |-> Max(pos, Len(file)), offset |-> offset]
    ELSE LET header == Slice(file, pos, pos + HeaderLen) IN
         IF header[1] \notin {DataType, TombstoneType}
         THEN [tag |-> "Err", err |-> "InvalidFormat", rec |-> NoRecord,
               pos |-> pos + HeaderLen, offset |-> offset]
         ELSE LET key_len == FromBE32(Slice(header, 1, 5))
                  value_len == FromBE32(Slice(header, 5, 9))
                  total_size == HeaderLen + key_len + value_len + ChecksumLen
                  body_start == pos + HeaderLen
                  body_len == key_len + value_len + ChecksumLen
              IN IF body_start + body_len > Len(file)
                 THEN [tag |-> "End", err |-> "-", rec |-> NoRecord,
                       pos |-> Len(file), offset |-> offset]
                 ELSE LET body == Slice(file, body_start, body_start + body_len)
                          checksum_start == key_len + value_len
                          stored_checksum ==
                              StoredChecksum(Slice(body, checksum_start, checksum_start + 4))
                          sum == SumBytes(Slice(body, 0, checksum_start),
                                          Checksum(header))
                      IN [tag |-> "Rec", err |-> "-",
                          rec |-> [offset |-> offset,
                                   size |-> AsU32(total_size),
                                   entry_type |-> header[1],
                                   key |-> Slice(body, 0, key_len),
                                   value_len |-> value_len,
                                   checksum_ok |-> (sum = stored_checksum)],
                          pos |-> pos + total_size,
                          offset |-> offset + total_size]

\* a faulty recovery step that keeps the first frame seen for a key;
\* RecoveryEquivalence is sensitive to the difference
RecoverStepKeepFirst(idx, rec) ==
    IF rec.key \in DOMAIN idx THEN idx
    ELSE IndexInsert(idx, rec.key, [offset |-> rec.offset, size |-> rec.size])

\* index.insert(record.key, IndexEntry { offset, size }) (db.rs:407-413)
RecoverStep(idx, rec) ==
    IndexInsert(idx, rec.key, [offset |-> rec.offset, size |-> rec.size])

\* a faulty test that lets every record into the index; CorruptedOnOpen is
\* sensitive to the difference
RejectsNothing(rec) == FALSE

\* if !record.checksum_ok { return Err(CorruptedData) } (db.rs:404-406)
Rejects(rec) == ~rec.checksum_ok

RECURSIVE RecoverFromStrict(_, _, _, _)
\* a faulty loop that reports bytes left over at the end of the file as an
\* I/O error instead of ending normally; TornTailTolerated is sensitive to
\* the difference
RecoverFromStrict(file, pos, offset, idx) ==
    LET n == LogIterNext(file, pos, offset) IN
    CASE n.tag = "End" ->
           IF pos < Len(file)
           THEN [ok |-> FALSE, err |-> "Io", index |-> EmptyIndex]
           ELSE [ok |-> TRUE, err |-> "-", index |-> idx]
      [] n.tag = "Err" -> [ok |-> FALSE, err |-> n.err, index |-> EmptyIndex]
      [] OTHER ->
           IF Rejects(n.rec)
           THEN [ok |-> FALSE, err |-> "CorruptedData", index |-> EmptyIndex]
           ELSE RecoverFromStrict(file, n.pos, n.offset,
                                  IndexInsert(idx, n.rec.key,
                                              [offset |-> n.rec.offset,
                                               size |-> n.rec.size]))

RECURSIVE RecoverFrom(_, _, _, _)
\* the for record in &mut iter loop of recover_index
RecoverFrom(file, pos, offset, idx) ==
    LET n == LogIterNext(file, pos, offset) IN
    CASE n.tag = "End" -> [ok |-> TRUE, err |-> "-", index |-> idx]
      [] n.tag = "Err" -> [ok |-> FALSE, err |-> n.err, index |-> EmptyIndex]
      [] OTHER ->
           IF Rejects(n.rec)
           THEN [ok |-> FALSE, err |-> "CorruptedData", index |-> EmptyIndex]
           ELSE RecoverFrom(file, n.pos, n.offset, RecoverStep(idx, n.rec))

\* recover_index(path)
RecoverIndex(file) == RecoverFrom(file, 0, 0, EmptyIndex)

RECURSIVE RecordsFrom(_, _, _)
\* the records the iterator yields before it ends or fails
RecordsFrom(file, pos, offset) ==
    LET n == LogIterNext(file, pos, offset) IN
    IF n.tag = "Rec" THEN <<n.rec>> \o RecordsFrom(file, n.pos, n.offset)
    ELSE << >>

\* log_iter() run to its end on a file
LogRecords(file) == RecordsFrom(file, 0, 0)

(***************************************************************************)
(* Compaction (db.rs compact, maybe_compact) as functions of the log file  *)
(* and the index.                                                          *)
(***************************************************************************)
RECURSIVE SortKeysDescending(_, _)
\* a faulty sort that puts the largest offset first; CompactionOutputOrder
\* is sensitive to the difference
SortKeysDescending(idx, keys) ==
    IF keys = {} THEN << >>
    ELSE LET k == CHOOSE x \in keys : \A y \in keys : idx[x].offset >= idx[y].offset
         IN <<k>> \o SortKeysDescending(idx, keys \ {k})

RECURSIVE SortKeys(_, _)
\* snapshot.sort_by_key(|(_, entry)| entry.offset): the keys of the snapshot
\* in ascending order of their offsets
SortKeys(idx, keys) ==
    IF keys = {} THEN << >>
    ELSE LET k == CHOOSE x \in keys : \A y \in keys : idx[x].offset <= idx[y].offset
         IN <<k>> \o SortKeys(idx, keys \ {k})

\* a faulty snapshot that lists every entry twice; CompactionNeverGrows is
\* sensitive to the difference
IndexSnapshotRepeated(idx) == SortKeys(idx, DOMAIN idx) \o SortKeys(idx, DOMAIN idx)

\* index_snapshot (db.rs:278-288)
IndexSnapshot(idx) == SortKeys(idx, DOMAIN idx)

\* a faulty filter that also drops the keys whose value is empty;
\* CompactionPreservesMap is sensitive to the difference
KeepsEntryNonEmpty(r) == r.tag = "Some" /\ r.val # << >>

\* a faulty filter that keeps every snapshot entry, deleted keys included;
\* CompactedLogIsMinimal is sensitive to the difference
KeepsEntryAll(r) == r.tag \in {"Some", "None"}

\* whether compaction keeps a snapshot entry: if let Some(value) = ...
KeepsEntry(r) == r.tag = "Some"

RECURSIVE ReadLive(_, _, _, _)
\* live_entries (db.rs:290-299): read every snapshot entry through the old
\* log; an error ends the compaction, None (a tombstone) is skipped
ReadLive(file, idx, snapshot, entries) ==
    IF snapshot = << >> THEN [ok |-> TRUE, err |-> "-", entries |-> entries]
    ELSE LET key == Head(snapshot)
             r == ReadEntryValue(file, idx[key], key)
         IN IF r.tag = "Err" THEN [ok |-> FALSE, err |-> r.err, entries |-> << >>]
            ELSE IF KeepsEntry(r)
                 THEN ReadLive(file, idx, Tail(snapshot),
                               Append(entries, <<key, r.val>>))
                 ELSE ReadLive(file, idx, Tail(snapshot), entries)

\* a faulty append that leaves the index as it was; TombstoneStaysIndexed is
\* sensitive to the difference
AppendFrameUnindexed(file, idx, key, bytes) == [log |-> file \o bytes, index |-> idx]

\* a faulty seek to the start of the file, SeekFrom::Start(0): the writes
\* still land at the end of the append-mode file, the offset recorded is 0;
\* IndexIsNewest is sensitive to the difference
SeekStart(file) == 0

\* file.seek(SeekFrom::End(0)) (db.rs:123, 188, 318)
SeekEnd(file) == Len(file)

RECURSIVE WriteTemp(_, _, _)
\* db.rs:304-329: append a fresh Data frame per live entry to the temporary
\* file and record its offset and size in new_index
WriteTemp(entries, temp_file, new_index) ==
    IF entries = << >> THEN [file |-> temp_file, index |-> new_index]
    ELSE LET key == Head(entries)[1]
             value == Head(entries)[2]
             bytes == ToBytes(DataType, key, value)
             offset == SeekEnd(temp_file)
         IN WriteTemp(Tail(entries), temp_file \o bytes,
                      IndexInsert(new_index, key,
                                  [offset |-> offset, size |-> FrameSize(bytes)]))

\* a faulty compaction that only takes the last byte off the file;
\* AtMostTwoPasses is sensitive to the difference
CompactTrim(file, idx) ==
    [ok |-> TRUE, err |-> "-", log |-> SubSeq(file, 1, Len(file) - 1), index |-> idx]

\* compact(): the new log file and the new index, or the error and the old ones
Compact(file, idx) ==
    LET live == ReadLive(file, idx, IndexSnapshot(idx), << >>) IN
    IF ~live.ok THEN [ok |-> FALSE, err |-> live.err, log |-> file, index |-> idx]
    ELSE LET t == WriteTemp(live.entries, << >>, EmptyIndex) IN
         [ok |-> TRUE, err |-> "-", log |-> t.file, index |-> t.index]

\* a faulty maybe_compact that runs one pass whatever max_size is;
\* NoCompactionWhenDisabled is sensitive to the difference
MaybeCompactAlways(file, idx, max) == Compact(file, idx)

\* a faulty maybe_compact that never runs a pass; CompactsAtThreshold is
\* sensitive to the difference
MaybeCompactSkipped(file, idx, max) ==
    [ok |-> TRUE, err |-> "-", log |-> file, index |-> idx]

RECURSIVE PassesFrom(_, _, _, _)
\* the number of times the loop of maybe_compact calls compact(), n calls
\* having been made, when one thread runs it with no other thread active
PassesFrom(file, idx, max, n) ==
    IF max = 0 \/ Len(file) < max THEN n
    ELSE IF ~Compact(file, idx).ok \/ Len(Compact(file, idx).log) >= Len(file)
         THEN n + 1
         ELSE PassesFrom(Compact(file, idx).log, Compact(file, idx).index, max, n + 1)

RECURSIVE MaybeCompact(_, _, _)
\* db.rs:388-392: after self.compact() returned c, stop on its error or when
\* the file did not shrink, else go round the loop again
AfterCompact(c, before, max) ==
    IF ~c.ok \/ Len(c.log) >= before THEN c
    ELSE MaybeCompact(c.log, c.index, max)

\* maybe_compact() run by one thread with no other thread active
MaybeCompact(file, idx, max) ==
    IF max = 0 \/ Len(file) < max
    THEN [ok |-> TRUE, err |-> "-", log |-> file, index |-> idx]
    ELSE AfterCompact(Compact(file, idx), Len(file), max)

(***************************************************************************)
(* State.                                                                  *)
(***************************************************************************)
VARIABLES
    log,        \* the bytes of the file at config.file_path
    index,      \* shared.index: key -> [offset, size]
    max_size,   \* config.max_size
    engine,     \* "open", or "failed" when MyDatabase::new returned an error
    written,    \* history: the last write each key received (set v / delete)
    last,       \* history: the last public operation that returned, its result
    ops,        \* number of public operations the behaviour may still start
    pc,         \* per thread: where the thread is inside its operation
    req,        \* per thread: the operation it runs, with its arguments
    info,       \* per thread: index_info of get (db.rs:143-153)
    before,     \* per thread: `before` of maybe_compact (db.rs:387)
    built,      \* per thread: temp file and new_index of compact (db.rs:304-329)
    gate,       \* shared.access: [writer |-> thread or 0, readers |-> threads]
    res,        \* per thread: what its last get returned
    allowed,    \* history, per get: the value its key had when the get was
                \* called and the values of the writes to the key that overlap it
    watch,      \* history, per get: the kinds of operations that overlap it
                \* (over), and whether this engine wrote the key's value (here)
    fault,      \* history: the damage done to the file from outside the engine
                \* (the file before it and after it)
    arg,        \* the byte string handed to the codecs
    out         \* what the codecs made of arg

\* what no operation of the engine changes
fixed == <<max_size, fault, arg, out>>
shared == <<log, index, fixed, engine>>
history == <<written, last, ops>>
threads == <<pc, req, info, before, built, gate, res, allowed, watch>>
vars == <<log, index, max_size, engine, written, last, ops,
          pc, req, info, before, built, gate, res, allowed, watch,
          fault, arg, out>>

(***************************************************************************)
(* The log files an engine may be opened on: the empty file, and files     *)
(* produced by earlier runs (each the frames of a sequence of writes).     *)
(***************************************************************************)
WSet(k, v) == [kind |-> "set", key |-> k, val |-> v]
WDel(k) == [kind |-> "del", key |-> k, val |-> << >>]
NeverWritten == [kind |-> "none", val |-> << >>, prev |-> "none", here |-> FALSE]

InitHistories ==
    { << >>,
      << WSet(K2, <<7, 7, 7, 7>>), WSet(K1, <<7>>) >>,
      << WSet(K1, <<7>>), WDel(K1), WSet(K2, << >>) >> }

\* the frame a write appends
FrameOf(w) ==
    IF w.kind = "set" THEN SetEntry(w.key, w.val) ELSE DeleteEntry(w.key)

RECURSIVE FileOf(_)
\* the log file a sequence of writes leaves behind (no compaction)
FileOf(h) == IF h = << >> THEN << >> ELSE FrameOf(Head(h)) \o FileOf(Tail(h))

\* the history after one more write: the key's last write, the kind of the
\* write it replaces, and whether this engine made it (here) or an earlier run
Record(acc, w, here) ==
    [acc EXCEPT ![w.key] = [kind |-> w.kind, val |-> w.val,
                            prev |-> acc[w.key].kind, here |-> here]]

\* the value the history gives a key
ValueOf(w) == IF w.kind = "set" THEN SomeVal(w.val) ELSE Absent

RECURSIVE LastWrites(_, _)
\* the last write of each key in a sequence of writes
LastWrites(h, acc) ==
    IF h = << >> THEN acc
    ELSE LastWrites(Tail(h), Record(acc, Head(h), FALSE))

NoRequest == [op |-> "none", kind |-> "none", key |-> << >>, val |-> << >>]
NoEntry == [offset |-> 0, size |-> 0]
NoBuilt == [log |-> << >>, index |-> EmptyIndex]
NoWatch == [over |-> {}, here |-> FALSE]
NoFault == [kind |-> "none", good |-> << >>, bad |-> << >>]
NoOut == [op |-> "none"]
Ok == SomeVal(<< >>)

\* MyDatabase::new on the file the writes of h left behind: the index is
\* rebuilt from the log
Opened(h, budget) ==
        /\ log = FileOf(h)
        /\ index = RecoverIndex(FileOf(h)).index
        /\ max_size \in MaxSizes
        /\ engine = "open"
        /\ written = LastWrites(h, [k \in Keys |-> NeverWritten])
        /\ last = [op |-> "open", key |-> << >>, res |-> Ok]
        /\ ops = budget
        /\ pc = [t \in Threads |-> "idle"]
        /\ req = [t \in Threads |-> NoRequest]
        /\ info = [t \in Threads |-> NoEntry]
        /\ before = [t \in Threads |-> 0]
        /\ built = [t \in Threads |-> NoBuilt]
        /\ gate = [writer |-> 0, readers |-> {}]
        /\ res = [t \in Threads |-> Absent]
        /\ allowed = [t \in Threads |-> {}]
        /\ watch = [t \in Threads |-> NoWatch]
        /\ fault = NoFault
        /\ arg = << >>
        /\ out = NoOut

Init == \E h \in InitHistories : Opened(h, MaxOps)

\* what get(k) returns in the current state when nothing else runs
GetNow(k) == GetAt(log, index, k)

(***************************************************************************)
(* The engine used by one thread: every public operation is one action.    *)
(***************************************************************************)
\* a faulty append that writes the frame at the start of the file, in front
\* of the bytes that were there; AppendOnly is sensitive to the difference
AppendFrameInFront(file, idx, key, bytes) ==
    [log |-> bytes \o file,
     index |-> IndexInsert(idx, key, [offset |-> 0, size |-> FrameSize(bytes)])]

\* db.rs:117-134 / 182-199: append the frame, point the index at it
AppendFrame(file, idx, key, bytes) ==
    [log |-> file \o bytes,
     index |-> IndexInsert(idx, key,
                           [offset |-> SeekEnd(file), size |-> FrameSize(bytes)])]

\* the result of set / delete / compact: Ok(()) or the error
Unit(r) == IF r.ok THEN Ok ELSE Failure(r.err)

\* set(key, value), with the maybe_compact it ends with; a is the file and
\* the index after the append, m what maybe_compact leaves
Set(k, v) ==
    /\ engine = "open" /\ ops > 0
    /\ \E a \in {AppendFrame(log, index, k, SetEntry(k, v))} :
       \E m \in {MaybeCompact(a.log, a.index, max_size)} :
          /\ log' = m.log
          /\ index' = m.index
          /\ last' = [op |-> "set", key |-> k, res |-> Unit(m)]
    /\ written' = Record(written, WSet(k, v), TRUE)
    /\ ops' = ops - 1
    /\ UNCHANGED <<fixed, engine, threads>>

\* delete(key), with the maybe_compact it ends with
Delete(k) ==
    /\ engine = "open" /\ ops > 0
    /\ \E a \in {AppendFrame(log, index, k, DeleteEntry(k))} :
       \E m \in {MaybeCompact(a.log, a.index, max_size)} :
          /\ log' = m.log
          /\ index' = m.index
          /\ last' = [op |-> "delete", key |-> k, res |-> Unit(m)]
    /\ written' = Record(written, WDel(k), TRUE)
    /\ ops' = ops - 1
    /\ UNCHANGED <<fixed, engine, threads>>

\* get(key)
Get(k) ==
    /\ engine = "open" /\ ops > 0
    /\ last' = [op |-> "get", key |-> k, res |-> GetAt(log, index, k)]
    /\ ops' = ops - 1
    /\ UNCHANGED <<log, index, fixed, engine, written, threads>>

\* compact()
CompactOp ==
    /\ engine = "open" /\ ops > 0
    /\ LET c == Compact(log, index)
       IN /\ log' = c.log
          /\ index' = c.index
          /\ last' = [op |-> "compact", key |-> << >>, res |-> Unit(c)]
    /\ ops' = ops - 1
    /\ UNCHANGED <<fixed, engine, written, threads>>

\* drop the engine and open a new one on the same file (MyDatabase::new)
Reopen ==
    /\ engine = "open" /\ ops > 0
    /\ LET r == RecoverIndex(log)
       IN /\ index' = r.index
          /\ engine' = IF r.ok THEN "open" ELSE "failed"
          /\ last' = [op |-> "open", key |-> << >>, res |-> Unit(r)]
    /\ ops' = ops - 1
    /\ UNCHANGED <<log, fixed, written, threads>>

Next ==
    \/ \E k \in Keys, v \in Values : Set(k, v)
    \/ \E k \in Keys : Delete(k)
    \/ \E k \in Keys : Get(k)
    \/ CompactOp
    \/ Reopen

Spec == Init /\ [][Next]_vars

\* log_iter() (db.rs:420-422, 443-449): the log file is opened for reading
\* and the iterator is handed to the caller; next() only reads (454-515)
LogIterOp ==
    /\ engine = "open" /\ ops > 0
    /\ last' = [op |-> "log_iter", key |-> << >>, res |-> Ok]
    /\ ops' = ops - 1
    /\ UNCHANGED <<log, index, fixed, engine, written, threads>>

\* the engine used by one thread that also lists its log
NextFrame ==
    \/ Next
    \/ LogIterOp

SpecFrame == Init /\ [][NextFrame]_vars

(***************************************************************************)
(* The engine shared by several threads (clones of one handle, db.rs       *)
(* 425-432).  An operation is a sequence of steps; a step is a stretch of  *)
(* code that starts where the thread may have to wait for the gate, or     *)
(* where another thread can see or change what it reads.  shared.file and  *)
(* shared.index are locked and released inside one step; shared.access     *)
(* (the gate) is held across steps and is modelled explicitly.             *)
(***************************************************************************)
\* a faulty gate that lets every thread in at once; AppendsSerialize is
\* sensitive to the difference
GateOpenToAll == TRUE

\* shared.access can be taken for writing (db.rs:110-115, 273-277)
GateFree == gate.writer = 0 /\ gate.readers = {}

\* threads inside get(key), after its index lookup
Getting(u, key) == pc[u] \in {"g_gate", "g_read"} /\ req[u].key = key

\* threads inside set(key, _) or delete(key), maybe_compact included
Writing(u, key) == req[u].op \in {"set", "delete"} /\ req[u].key = key

\* what the operation r is to a get of key: a set or a delete of the same
\* key, a write to another key, a compact() call, or nothing that counts
OverlapKind(r, key) ==
    CASE r.op = "set" /\ r.key = key -> {"set"}
      [] r.op = "delete" /\ r.key = key -> {"del"}
      [] r.op \in {"set", "delete"} /\ r.key # key -> {"other"}
      [] r.op = "compact" -> {"compact"}
      [] OTHER -> {}

\* the gets in flight see operation r of thread t start
Overlapped(t, r) ==
    [u \in Threads |->
        IF u # t /\ pc[u] \in {"g_gate", "g_read"}
        THEN [watch[u] EXCEPT !.over = @ \cup OverlapKind(r, req[u].key)]
        ELSE watch[u]]

\* the thread is back in its caller: nothing of the operation is kept
Returned(t) ==
    /\ pc' = [pc EXCEPT ![t] = "idle"]
    /\ req' = [req EXCEPT ![t] = NoRequest]

\* set / delete, db.rs:111-127 / 176-192: take the write side of the gate,
\* then, under the file mutex, seek to the end, write the frame, flush
WriteAppend(t, op, kind, k, v) ==
    /\ engine = "open" /\ ops > 0
    /\ pc[t] = "idle"
    /\ GateFree
    /\ gate' = [gate EXCEPT !.writer = t]
    /\ req' = [req EXCEPT ![t] = [op |-> op, kind |-> kind, key |-> k, val |-> v]]
    /\ LET bytes == IF op = "set" THEN SetEntry(k, v) ELSE DeleteEntry(k)
       IN /\ log' = log \o bytes
          /\ info' = [info EXCEPT ![t] =
                         [offset |-> SeekEnd(log), size |-> FrameSize(bytes)]]
    /\ pc' = [pc EXCEPT ![t] = "w_index"]
    /\ ops' = ops - 1
    /\ watch' = Overlapped(t, [op |-> op, key |-> k])
    /\ allowed' = [u \in Threads |->
                     IF Getting(u, k)
                     THEN allowed[u] \cup {ValueOf([kind |-> kind, val |-> v])}
                     ELSE allowed[u]]
    /\ UNCHANGED <<index, fixed, engine, written, last, before, built, res>>

SetAppend(t, k, v) == WriteAppend(t, "set", "set", k, v)

DeleteAppend(t, k) == WriteAppend(t, "delete", "del", k, << >>)

\* db.rs:129-135 / 194-200: under the index write lock, insert the entry;
\* the index guard and the gate are released at the end of the block
WriteIndex(t) ==
    /\ pc[t] = "w_index"
    /\ index' = IndexInsert(index, req[t].key, info[t])
    /\ info' = [info EXCEPT ![t] = NoEntry]
    /\ gate' = [gate EXCEPT !.writer = 0]
    /\ pc' = [pc EXCEPT ![t] = "mc_size"]
    /\ written' = Record(written, req[t], TRUE)
    /\ UNCHANGED <<log, fixed, engine, last, ops, req, before, built,
                   res, allowed, watch>>

\* maybe_compact, db.rs:378-387: return when max_size is 0 or the file is
\* shorter than max_size, else remember the length and call compact
McSize(t) ==
    /\ pc[t] = "mc_size"
    /\ IF max_size = 0 \/ Len(log) < max_size
       THEN /\ Returned(t)
            /\ before' = [before EXCEPT ![t] = 0]
       ELSE /\ pc' = [pc EXCEPT ![t] = "c_gate"]
            /\ before' = [before EXCEPT ![t] = Len(log)]
            /\ UNCHANGED req
    /\ UNCHANGED <<shared, history, info, built, gate, res, allowed, watch>>

\* db.rs:272-329: take the write side of the gate, snapshot the index, read
\* the live entries through the log, write the temporary file and new_index;
\* an error returns, releasing the gate
CompactBuild(t, caller) ==
    /\ GateFree
    /\ LET c == Compact(log, index) IN
       IF c.ok
       THEN /\ built' = [built EXCEPT ![t] = [log |-> c.log, index |-> c.index]]
            /\ pc' = [pc EXCEPT ![t] = "c_rename"]
            /\ req' = [req EXCEPT ![t] = caller]
            /\ gate' = [gate EXCEPT !.writer = t]
            /\ UNCHANGED before
       ELSE /\ Returned(t)
            /\ before' = [before EXCEPT ![t] = 0]
            /\ UNCHANGED <<built, gate>>
    /\ UNCHANGED <<shared, written, last, info, res, allowed>>

\* compact() called by maybe_compact
CompactAuto(t) ==
    /\ pc[t] = "c_gate"
    /\ CompactBuild(t, req[t])
    /\ UNCHANGED <<ops, watch>>

\* compact() called by the user
CompactCall(t) ==
    /\ engine = "open" /\ ops > 0
    /\ pc[t] = "idle"
    /\ ops' = ops - 1
    /\ CompactBuild(t, [op |-> "compact", kind |-> "none", key |-> << >>, val |-> << >>])
    /\ watch' = Overlapped(t, [op |-> "compact", key |-> << >>])

\* db.rs:331-347: rename the temporary file over the log path
CompactRename(t) ==
    /\ pc[t] = "c_rename"
    /\ log' = built[t].log
    /\ pc' = [pc EXCEPT ![t] = "c_index"]
    /\ UNCHANGED <<index, fixed, engine, history, req, info, before, built,
                   gate, res, allowed, watch>>

\* db.rs:349-371: reopen the log, install the handle, replace the index;
\* the gate is released on return
CompactIndex(t) ==
    /\ pc[t] = "c_index"
    /\ index' = built[t].index
    /\ built' = [built EXCEPT ![t] = NoBuilt]
    /\ gate' = [gate EXCEPT !.writer = 0]
    /\ IF req[t].op = "compact"
       THEN Returned(t)
       ELSE pc' = [pc EXCEPT ![t] = "mc_after"] /\ UNCHANGED req
    /\ UNCHANGED <<log, fixed, engine, history, info, before, res,
                   allowed, watch>>

\* maybe_compact, db.rs:389-392: stop when the pass did not shrink the file
McAfter(t) ==
    /\ pc[t] = "mc_after"
    /\ IF Len(log) >= before[t]
       THEN /\ Returned(t)
            /\ before' = [before EXCEPT ![t] = 0]
       ELSE /\ pc' = [pc EXCEPT ![t] = "mc_size"]
            /\ UNCHANGED <<before, req>>
    /\ UNCHANGED <<shared, history, info, built, gate, res, allowed, watch>>

\* get, db.rs:143-153: look the key up under the index read lock; a key
\* that is not in the index returns Ok(None) at once
GetIndex(t, k) ==
    /\ engine = "open" /\ ops > 0
    /\ pc[t] = "idle"
    /\ req' = [req EXCEPT ![t] = [op |-> "get", kind |-> "none", key |-> k, val |-> << >>]]
    /\ ops' = ops - 1
    /\ allowed' = [allowed EXCEPT ![t] =
                      {ValueOf(written[k])} \cup
                      {ValueOf(req[u]) : u \in {x \in Threads \ {t} : Writing(x, k)}}]
    /\ watch' = [watch EXCEPT ![t] =
                    [over |-> UNION {OverlapKind(req[u], k) : u \in Threads \ {t}},
                     here |-> written[k].here]]
    /\ IF k \in DOMAIN index
       THEN /\ info' = [info EXCEPT ![t] = index[k]]
            /\ pc' = [pc EXCEPT ![t] = "g_gate"]
            /\ UNCHANGED res
       ELSE /\ res' = [res EXCEPT ![t] = Absent]
            /\ pc' = [pc EXCEPT ![t] = "g_done"]
            /\ UNCHANGED info
    /\ UNCHANGED <<shared, written, last, before, built, gate>>

\* get, db.rs:155-159: take the read side of the gate
GetGate(t) ==
    /\ pc[t] = "g_gate"
    /\ gate.writer = 0
    /\ gate' = [gate EXCEPT !.readers = @ \cup {t}]
    /\ pc' = [pc EXCEPT ![t] = "g_read"]
    /\ UNCHANGED <<shared, history, req, info, before, built, res, allowed, watch>>

\* get, db.rs:161-163: open the file, read the frame at index_info, decode;
\* the gate is released on return
GetRead(t) ==
    /\ pc[t] = "g_read"
    /\ res' = [res EXCEPT ![t] = ReadEntryValue(log, info[t], req[t].key)]
    /\ info' = [info EXCEPT ![t] = NoEntry]
    /\ gate' = [gate EXCEPT !.readers = @ \ {t}]
    /\ pc' = [pc EXCEPT ![t] = "g_done"]
    /\ UNCHANGED <<shared, history, req, before, built, allowed, watch>>

\* get has returned res[t] to its caller, which goes on
GetReturn(t) ==
    /\ pc[t] = "g_done"
    /\ Returned(t)
    /\ res' = [res EXCEPT ![t] = Absent]
    /\ allowed' = [allowed EXCEPT ![t] = {}]
    /\ watch' = [watch EXCEPT ![t] = NoWatch]
    /\ UNCHANGED <<shared, history, info, before, built, gate>>

\* log_iter, db.rs:420-422 and 443-449: open the log file; no lock is taken
LogIterOpen(t) ==
    /\ engine = "open" /\ ops > 0
    /\ pc[t] = "idle"
    /\ ops' = ops - 1
    /\ UNCHANGED <<shared, written, last, threads>>

NextConc ==
    \E t \in Threads :
        \/ \E k \in Keys, v \in Values : SetAppend(t, k, v)
        \/ \E k \in Keys : DeleteAppend(t, k)
        \/ WriteIndex(t)
        \/ McSize(t)
        \/ CompactAuto(t)
        \/ CompactCall(t)
        \/ CompactRename(t)
        \/ CompactIndex(t)
        \/ McAfter(t)
        \/ \E k \in Keys : GetIndex(t, k)
        \/ GetGate(t)
        \/ GetRead(t)
        \/ GetReturn(t)
        \/ LogIterOpen(t)

\* the shared engine is opened on the empty file or on a two-frame log
ConcHistories == { << >>, << WSet(K2, <<7, 7, 7, 7>>), WSet(K1, <<7>>) >> }

InitConc == \E h \in ConcHistories : Opened(h, MaxConcOps)

SpecConc == InitConc /\ [][NextConc]_vars

(***************************************************************************)
(* The shared engine with writers only: the threads run set, delete and    *)
(* compact.  get and log_iter change neither the log nor the index, so     *)
(* the states of the log and the index are those of SpecConc.              *)
(***************************************************************************)
NextWriters ==
    \E t \in Threads :
        \/ \E k \in Keys, v \in Values : SetAppend(t, k, v)
        \/ \E k \in Keys : DeleteAppend(t, k)
        \/ WriteIndex(t)
        \/ McSize(t)
        \/ CompactAuto(t)
        \/ CompactCall(t)
        \/ CompactRename(t)
        \/ CompactIndex(t)
        \/ McAfter(t)

InitWriters == \E h \in ConcHistories : Opened(h, MaxWrites)

SpecWriters == InitWriters /\ [][NextWriters]_vars

(***************************************************************************)
(* Properties of the engine used by one thread (Spec).                     *)
(***************************************************************************)
\* the region the index names for k is inside the file and holds exactly one
\* complete frame, of key k, with a matching checksum
OneFrameOf(file, entry, k) ==
    /\ entry.offset + entry.size <= Len(file)
    /\ LET n == LogIterNext(Slice(file, entry.offset, entry.offset + entry.size), 0, 0)
       IN /\ n.tag = "Rec"
          /\ n.rec.size = entry.size
          /\ n.rec.key = k
          /\ n.rec.checksum_ok

\* the records of a file cover it from its first byte to its last
RECURSIVE TotalSize(_)
TotalSize(recs) == IF recs = << >> THEN 0 ELSE Head(recs).size + TotalSize(Tail(recs))

FullyParsed(file) == TotalSize(LogRecords(file)) = Len(file)

\* C1: last write wins.  After any sequence of set / delete / compact /
\* reopen, with automatic compaction on or off, every key whose last write is
\* set(k, v) reads back as exactly v (the empty value included), and a get
\* that has just returned for such a key returned v.
LastWriteWins ==
    /\ \A k \in Keys :
          written[k].kind = "set" => GetNow(k) = SomeVal(written[k].val)
    /\ (last.op = "get" /\ written[last.key].kind = "set")
          => last.res = SomeVal(written[last.key].val)
    /\ (last.op = "set") => last.res = Ok

\* C1 witness: the key was set to the empty value, another key was deleted
\* and compacted away, and a get of the key has returned the empty value.
LastWriteWinsWitness ==
    /\ last.op = "get" /\ last.key = K1
    /\ written[K1].kind = "set" /\ written[K1].val = << >>
    /\ written[K1].prev = "set"
    /\ last.res = SomeVal(<< >>)
    /\ written[K2].kind = "del" /\ K2 \notin DOMAIN index
    /\ max_size > 0

\* C2: tombstone semantics.  A key whose last write is delete(k) reads as
\* absent, whatever was written before and whether or not a compaction ran;
\* a key set again after a delete reads as the value set.
TombstoneSemantics ==
    /\ \A k \in Keys :
          /\ written[k].kind = "del" => GetNow(k) = Absent
          /\ (written[k].kind = "set" /\ written[k].prev = "del")
                => GetNow(k) = SomeVal(written[k].val)
    /\ (last.op = "get" /\ written[last.key].kind = "del") => last.res = Absent
    /\ (last.op = "delete") => last.res = Ok

\* C2 witness: a get returned absent for a key deleted after a set, with the
\* tombstone still in the index, while the other key, deleted and then set
\* again, reads as the value set.
TombstoneSemanticsWitness ==
    /\ last.op = "get" /\ last.key = K1
    /\ written[K1].kind = "del" /\ written[K1].prev = "set"
    /\ K1 \in DOMAIN index
    /\ last.res = Absent
    /\ written[K2].kind = "set" /\ written[K2].prev = "del"
    /\ GetNow(K2) = SomeVal(<<7>>)

\* C3: recovery equivalence.  In every state reached from an engine opened
\* on an empty or well-formed log, opening a new engine on the file succeeds
\* and the recovered index gives every key the get result it has now.
RecoveryEquivalence ==
    /\ engine = "open"
    /\ LET r == RecoverIndex(log) IN
          /\ r.ok
          /\ \A k \in Keys : GetAt(log, r.index, k) = GetNow(k)
    /\ (last.op = "open") => last.res = Ok

\* C3 witness: the engine was reopened after writes that left a tombstone in
\* the index and two frames for one key in the log.
RecoveryEquivalenceWitness ==
    /\ last.op = "open" /\ ops = 0
    /\ written[K1].kind = "del" /\ K1 \in DOMAIN index
    /\ written[K2].kind = "set" /\ written[K2].prev = "set"
    /\ Len(LogRecords(log)) >= 3

\* C4: compaction preserves the map.  Every key, live, tombstoned, holding an
\* empty value or never written, has the same get result right after a
\* successful compact() as right before it.
CompactionPreservesMap ==
    [][CompactOp =>
        /\ last'.res = Ok
        /\ \A k \in Keys : GetAt(log', index', k) = GetAt(log, index, k)]_vars

\* C4 witness: a compaction has returned in a state with a deleted key, a
\* key holding the empty value and a smaller log than the writes produced.
CompactionPreservesMapWitness ==
    /\ last.op = "compact" /\ last.res = Ok
    /\ written[K1].kind = "del" /\ GetNow(K1) = Absent
    /\ written[K2].kind = "set" /\ written[K2].val = << >>
    /\ GetNow(K2) = SomeVal(<< >>)
    /\ Len(LogRecords(log)) = 1

\* C6: invariant I1.  With no operation in flight, every index entry names a
\* region inside the log that is exactly one complete frame of its key.
IndexPointsAtFrames ==
    \A k \in DOMAIN index : OneFrameOf(log, index[k], k)

\* C6 witness: a compaction dropped the tombstone of a key, the key was set
\* again, and the index holds both keys, the one just set at a nonzero offset.
IndexPointsAtFramesWitness ==
    /\ DOMAIN index = Keys
    /\ last.op = "set" /\ max_size = 0
    /\ index[last.key].offset > 0
    /\ Len(LogRecords(log)) = 2
    /\ written[K1].prev = "del"

\* C10: invariant I5.  Right after a successful compact() the log holds no
\* Tombstone frame and exactly one Data frame per key of the index, nothing
\* else; the index holds exactly the keys that had a live value before the
\* compaction, so keys whose latest record was a tombstone are gone.
CompactedLogIsMinimal ==
    [][CompactOp =>
        LET recs == LogRecords(log') IN
        /\ last'.res = Ok
        /\ FullyParsed(log')
        /\ \A i \in 1..Len(recs) : recs[i].entry_type = DataType
        /\ \A k \in DOMAIN index' :
              Cardinality({i \in 1..Len(recs) : recs[i].key = k}) = 1
        /\ Len(recs) = Cardinality(DOMAIN index')
        /\ DOMAIN index' = {k \in Keys : GetAt(log, index, k).tag = "Some"}
        /\ \A k \in DOMAIN index :
              GetAt(log, index, k) = Absent => k \notin DOMAIN index']_vars

\* C10 witness: a compaction has returned, a deleted key is no longer in the
\* index and the other key is the only frame of the log.
CompactedLogIsMinimalWitness ==
    /\ last.op = "compact" /\ last.res = Ok
    /\ written[K2].kind = "del" /\ written[K2].prev = "set"
    /\ K2 \notin DOMAIN index
    /\ DOMAIN index = {K1}
    /\ index[K1].offset = 0

\* C31: compaction output order.  After a successful compact() the frames
\* of the new log are the live keys in ascending order of the offsets their
\* index entries had before, written back to back from offset 0, and the new
\* index maps each live key to exactly the offset and size of its frame.
CompactionOutputOrder ==
    [][(CompactOp /\ last'.res = Ok) =>
        LET recs == LogRecords(log')
            live == {k \in DOMAIN index : GetAt(log, index, k).tag = "Some"}
        IN /\ FullyParsed(log')
           /\ Len(recs) = Cardinality(live)
           /\ DOMAIN index' = live
           /\ \A i \in 1..Len(recs) :
                 /\ recs[i].key \in live
                 /\ recs[i].entry_type = DataType
                 /\ recs[i].offset = TotalSize(SubSeq(recs, 1, i - 1))
                 /\ index'[recs[i].key] =
                        [offset |-> recs[i].offset, size |-> recs[i].size]
                 /\ \A j \in 1..Len(recs) :
                       i < j => index[recs[i].key].offset < index[recs[j].key].offset]_vars

\* C31 witness: K2 was written first, K1 second, then K2 again by this
\* engine; the compaction that followed put K1's frame at offset 0 and K2's
\* frame behind it.
CompactionOutputOrderWitness ==
    /\ last.op = "compact" /\ last.res = Ok
    /\ written[K1].kind = "set" /\ ~written[K1].here
    /\ written[K2].kind = "set" /\ written[K2].here /\ written[K2].prev = "set"
    /\ DOMAIN index = Keys
    /\ index[K1].offset = 0
    /\ index[K2].offset = index[K1].size

\* the log holds exactly one Data frame per key of the index, each where the
\* index says, and nothing else
FullyCompacted(file, idx) ==
    /\ FullyParsed(file)
    /\ Len(LogRecords(file)) = Cardinality(DOMAIN idx)
    /\ \A r \in {LogRecords(file)[i] : i \in 1..Len(LogRecords(file))} :
          /\ r.entry_type = DataType /\ r.checksum_ok
          /\ r.key \in DOMAIN idx
          /\ idx[r.key] = [offset |-> r.offset, size |-> r.size]

\* C21: with max_size = 0 no set or delete runs a compaction.  Every set or
\* delete appends its one frame to the log as it was, so that n operations
\* on an empty log leave exactly their n frames, in operation order.
NoCompactionWhenDisabled ==
    [][(/\ max_size = 0 /\ last'.op \in {"set", "delete"}
        /\ \/ \E v \in Values : Set(last'.key, v)
           \/ Delete(last'.key))
          => /\ last'.res = Ok
             /\ log' = log \o FrameOf([kind |-> written'[last'.key].kind,
                                       key |-> last'.key,
                                       val |-> written'[last'.key].val])
             /\ Len(LogRecords(log')) = Len(LogRecords(log)) + 1]_vars

\* C21 witness: with max_size = 0, three writes to one key on an empty log
\* have left their three frames, 56 bytes, in the order they were made.
NoCompactionWhenDisabledWitness ==
    /\ max_size = 0 /\ ops = 0 /\ last.op = "delete"
    /\ log = SetEntry(K1, <<7, 7, 7, 7>>) \o SetEntry(K1, <<7, 7, 7, 7>>)
                \o DeleteEntry(K1)
    /\ Len(LogRecords(log)) = MaxOps
    /\ Len(log) >= SmallMaxSize

\* C22: with max_size > 0, whenever set or delete returns successfully the
\* log is shorter than max_size or fully compacted: one Data frame per live
\* key and nothing else.
CompactsAtThreshold ==
    [][(/\ max_size > 0 /\ last'.op \in {"set", "delete"} /\ last'.res = Ok
        /\ \/ \E v \in Values : Set(last'.key, v)
           \/ Delete(last'.key))
          => \/ Len(log') < max_size
             \/ /\ FullyCompacted(log', index')
                /\ DOMAIN index' = {k \in Keys : written'[k].kind = "set"}]_vars

\* C22 witness: the third set of one key reached the threshold and left a
\* log that is a single Data frame.
CompactsAtThresholdWitness ==
    /\ max_size > 0 /\ ops = 0 /\ last.op = "set" /\ last.res = Ok
    /\ written[K1].kind = "set" /\ written[K1].prev = "set"
    /\ written[K2].kind = "none"
    /\ log = SetEntry(K1, <<7, 7, 7, 7>>)

\* the step ran a compaction: it is a compact() call, or a set or delete
\* whose frame brought the log to max_size bytes or more
CompactionRan ==
    \/ last'.op = "compact"
    \/ /\ last'.op \in {"set", "delete"} /\ max_size > 0
       /\ Len(log) + Len(FrameOf([kind |-> written'[last'.key].kind,
                                  key |-> last'.key,
                                  val |-> written'[last'.key].val])) >= max_size

\* C23: delete(k) appends one Tombstone frame for k and points index[k] at
\* it, whether or not k was written before; k stays in the index, reading as
\* absent, through reads, writes to other keys and reopening, and the next
\* compaction removes it.
TombstoneStaysIndexed ==
    [][/\ (/\ last'.op = "delete" /\ Delete(last'.key)
           /\ (max_size = 0 \/ Len(log) + Len(DeleteEntry(last'.key)) < max_size))
          => /\ log' = log \o DeleteEntry(last'.key)
             /\ LogRecords(log')[Len(LogRecords(log'))].entry_type = TombstoneType
             /\ last'.key \in DOMAIN index'
             /\ index'[last'.key] = [offset |-> Len(log),
                                     size |-> Len(DeleteEntry(last'.key))]
             /\ GetAt(log', index', last'.key) = Absent
       /\ \A k \in Keys :
             (/\ k \in DOMAIN index /\ written[k].kind = "del"
              /\ engine' = "open"
              /\ ~(last'.op \in {"set", "delete"} /\ last'.key = k))
                => IF CompactionRan
                   THEN last'.res = Ok => k \notin DOMAIN index'
                   ELSE /\ k \in DOMAIN index' /\ index'[k] = index[k]
                        /\ GetAt(log', index', k) = Absent]_vars

\* C23 witness: a key never written was deleted, the other key was then set,
\* and the deleted key is still in the index, naming the tombstone at 0.
TombstoneStaysIndexedWitness ==
    /\ written[K1].kind = "del" /\ written[K1].prev = "none" /\ written[K1].here
    /\ last.op = "set" /\ last.key = K2
    /\ K1 \in DOMAIN index /\ index[K1] = [offset |-> 0, size |-> 14]
    /\ GetNow(K1) = Absent
    /\ Len(LogRecords(log)) = 2

\* C27: automatic compaction terminates.  In every state reached by one
\* thread, with any max_size > 0, the loop of maybe_compact after any set or
\* delete makes at most two compaction passes, also when the live data
\* alone is max_size bytes or more.
AtMostTwoPasses ==
    (engine = "open" /\ max_size > 0) =>
        /\ \A k \in Keys, v \in Values :
              \A a \in {AppendFrame(log, index, k, SetEntry(k, v))} :
                  PassesFrom(a.log, a.index, max_size, 0) <= 2
        /\ \A k \in Keys :
              \A a \in {AppendFrame(log, index, k, DeleteEntry(k))} :
                  PassesFrom(a.log, a.index, max_size, 0) <= 2

\* C27 witness: a set has returned with a log of two live frames that is
\* still max_size bytes or more, and setting a key again takes two passes:
\* the first drops the old frame, the second changes nothing.
AtMostTwoPassesWitness ==
    /\ engine = "open" /\ max_size > 0
    /\ last.op = "set" /\ last.res = Ok
    /\ Len(log) >= max_size /\ FullyCompacted(log, index)
    /\ \E a \in {AppendFrame(log, index, K1, SetEntry(K1, <<7, 7, 7, 7>>))} :
          PassesFrom(a.log, a.index, max_size, 0) = 2

\* C34: append-only frame condition.  When no compaction runs, a successful
\* set(k, v) or delete(k) leaves every earlier byte of the log as it was and
\* adds exactly one frame, of key k, at its end, and changes the index only
\* at k; get and log_iter change neither the log nor the index.
AppendOnly ==
    [][/\ (/\ last'.op \in {"set", "delete"} /\ ops' = ops - 1
           /\ last'.res = Ok /\ ~CompactionRan)
          => /\ Len(log') > Len(log)
             /\ SubSeq(log', 1, Len(log)) = log
             /\ \E n \in {LogIterNext(log', Len(log), Len(log))} :
                   /\ n.tag = "Rec" /\ n.pos = Len(log')
                   /\ n.rec.key = last'.key /\ n.rec.checksum_ok
                   /\ n.rec.entry_type = IF last'.op = "set" THEN DataType
                                                             ELSE TombstoneType
                   /\ last'.key \in DOMAIN index'
                   /\ index'[last'.key] = [offset |-> n.rec.offset, size |-> n.rec.size]
             /\ \A k \in Keys \ {last'.key} :
                   /\ k \in DOMAIN index' <=> k \in DOMAIN index
                   /\ k \in DOMAIN index => index'[k] = index[k]
       /\ (last'.op \in {"get", "log_iter"} /\ ops' = ops - 1)
          => log' = log /\ index' = index]_vars

\* C34 witness: three sets of one key on the empty log, without compaction,
\* have left three Data frames, the index names the last one, and the key
\* reads as the value set last.
AppendOnlyWitness ==
    /\ max_size = 0 /\ last.op = "set" /\ last.res = Ok
    /\ Len(LogRecords(log)) = 3
    /\ \A i \in 1..3 : /\ LogRecords(log)[i].key = last.key
                        /\ LogRecords(log)[i].entry_type = DataType
    /\ index[last.key].offset = LogRecords(log)[3].offset
    /\ GetNow(last.key) = SomeVal(written[last.key].val)

\* C11: a successful compact() never makes the log longer.
CompactionNeverGrows ==
    [][CompactOp => (last'.res = Ok /\ Len(log') <= Len(log))]_vars

\* C11 witness: compact() has returned on a log that held no garbage (two
\* live keys, one frame each), the case in which the length stays the same.
CompactionNeverGrowsWitness ==
    /\ last.op = "compact" /\ last.res = Ok
    /\ ops = MaxOps - 1
    /\ written[K1].kind = "set" /\ written[K2].kind = "set"
    /\ written[K2].val = <<7, 7, 7, 7>>
    /\ Len(LogRecords(log)) = 2
    /\ Len(log) = Len(SetEntry(K1, <<7>>)) + Len(SetEntry(K2, <<7, 7, 7, 7>>))

(***************************************************************************)
(* Properties of the engine shared by several threads.                     *)
(***************************************************************************)
\* no operation is in flight
Quiescent == \A t \in Threads : pc[t] = "idle"

\* the frames of the log that carry key k, as the iterator reports them
FramesOf(file, k) ==
    LET recs == LogRecords(file) IN {recs[i] : i \in {j \in 1..Len(recs) : recs[j].key = k}}

\* C5: invariant I2.  With no operation in flight, after open and after any
\* sequence of set / delete / compact run by one thread or by several, every
\* index entry is at the largest offset among the frames of the log that
\* carry its key.
IndexIsNewest ==
    Quiescent =>
        \A k \in DOMAIN index :
            /\ \E r \in FramesOf(log, k) : r.offset = index[k].offset
            /\ \A r \in FramesOf(log, k) : r.offset <= index[k].offset

\* C5 witness: the threads have finished their writes, the log holds two
\* frames of one key and a frame of the other, and the index names the later.
IndexIsNewestWitness ==
    /\ Quiescent /\ ops = 0
    /\ \E k \in DOMAIN index :
          /\ Cardinality(FramesOf(log, k)) = 2
          /\ index[k].offset > 0
          /\ written[k].here
    /\ DOMAIN index = Keys

\* thread t is inside compact(), holding the write side of the gate
Compacting(t) == gate.writer = t /\ pc[t] \in {"c_rename", "c_index"}

\* a step of get, set, delete or log_iter taken by thread u
StepOfOther(u) ==
    \/ \E k \in Keys : GetIndex(u, k)
    \/ GetGate(u)
    \/ GetRead(u)
    \/ \E k \in Keys, v \in Values : SetAppend(u, k, v)
    \/ \E k \in Keys : DeleteAppend(u, k)
    \/ WriteIndex(u)
    \/ LogIterOpen(u)

\* C7 (as claimed): a get(k) of a key that held a value when the get was
\* called, overlapped by set(k, _) calls (with the compaction they run) and
\* by nothing else, returns the old value or one of the values being set:
\* never absent, an error or another value.
ConcurrentGetSeesOldOrNew ==
    \A t \in Threads :
        (/\ pc[t] = "g_done"
         /\ watch[t].over = {"set"}
         /\ \A r \in allowed[t] : r.tag = "Some")
            => res[t] \in allowed[t]

\* C8 (as claimed): a get(k) called after a set(k, v) of this engine has
\* returned, with no later write to k and overlapped only by writes of other
\* threads to other keys (with the compactions they run), returns v.
GetAfterSetSeesIt ==
    \A t \in Threads :
        (/\ pc[t] = "g_done"
         /\ watch[t].here
         /\ watch[t].over \subseteq {"other"}
         /\ \A r \in allowed[t] : r.tag = "Some")
            => res[t] \in allowed[t]

\* C9 (as claimed): while a thread is inside compact() with the write side
\* of the gate, no other thread takes any step of get (its index lookup
\* included), set, delete or log_iter (opening the log file included).
CompactionExcludesAll ==
    [][\A t \in Threads :
          Compacting(t) => \A u \in Threads \ {t} : ~StepOfOther(u)]_vars

\* C24 (as claimed): log_iter takes the read side of the gate, so that no
\* log iterator is created while another thread holds the write side for a
\* set, a delete or a compact.
LogIterWaitsForWriters ==
    [][\A t \in Threads : LogIterOpen(t) => gate.writer = 0]_vars

\* C26: appends serialize.  A set or delete of one of several threads
\* appends its whole frame at the end of the log as it was, leaving the rest
\* untouched, while no other thread is between its append and its index
\* update; the entry it then stores in the index is the region of the log
\* that holds exactly its frame.
AppendsSerialize ==
    [][\A t \in Threads :
          /\ (pc[t] = "idle" /\ pc'[t] = "w_index")
                => /\ log' = log \o FrameOf(req'[t])
                   /\ info'[t] = [offset |-> Len(log),
                                  size |-> Len(FrameOf(req'[t]))]
                   /\ \A u \in Threads \ {t} : pc[u] # "w_index"
          /\ (pc[t] = "w_index" /\ pc'[t] # "w_index")
                => /\ index'[req[t].key] = info[t]
                   /\ info[t].offset + info[t].size <= Len(log')
                   /\ Slice(log', info[t].offset, info[t].offset + info[t].size)
                         = FrameOf(req[t])]_vars

\* C26 witness: thread 2 has written one key and not yet returned from its
\* set; thread 1 has appended a frame for the other key right behind it and
\* is about to store its offset.
AppendsSerializeWitness ==
    /\ pc[1] = "w_index" /\ pc[2] = "mc_size"
    /\ req[1].key # req[2].key
    /\ req[2].key \in DOMAIN index
    /\ index[req[2].key].offset > 0
    /\ info[1].offset = index[req[2].key].offset + index[req[2].key].size
    /\ Len(log) = info[1].offset + info[1].size

(***************************************************************************)
(* The engine on a file that can be damaged from outside, and with appends *)
(* and compactions that can fail (SpecFaults).  The file starts closed; it *)
(* can lose a byte's value (Corrupt), end in a strict prefix of one more   *)
(* frame (Tear) or lose its last bytes (Chop), once per behaviour.         *)
(***************************************************************************)
\* the files on disk before the engine is opened
FaultHistories ==
    { << WSet(K2, <<7, 7, 7, 7>>), WSet(K1, <<7>>) >>,
      << WSet(K1, <<7>>), WDel(K1), WSet(K2, << >>) >> }

\* the frame whose write a crash cut short
TornFrames == {SetEntry(K1, <<7, 7, 7, 7>>)}

\* the values written to a file that can be damaged
FaultValues == {<< >>, <<7, 7, 7, 7>>}

\* the bytes of a frame that can change on disk: its type byte, the first
\* byte of its key, the last byte before its trailer (of its value, or of its
\* key when the value is empty), the last byte of its trailer
CorruptSpots(r) ==
    {r.offset, r.offset + HeaderLen, r.offset + r.size - ChecksumLen - 1,
     r.offset + r.size - 1}

\* the numbers of bytes an external truncation takes off the file
ChopSizes == {5}

\* how much of the frame reaches the file before the crash: any nonempty
\* strict prefix
TearSizes(f) == 1..(Len(f) - 1)

\* the number of bytes of the frame that reached the file when the append
\* failed: none (seek or write failed at once), part of the frame (write_all
\* failed midway), all of it (flush failed)
FailPoints(bytes) == {0, HeaderLen, Len(bytes)}

\* the steps of compact() before the rename that can fail besides the reads:
\* opening the temporary file, writing or flushing it, the rename itself
CompactFailSteps == {"create", "write", "rename"}

\* the steps of compact() that can fail after the live file was touched:
\* reopening the renamed file, the second rename of the fallback
CompactLateSteps == {"reopen", "retry"}

\* the file exists, no engine is open on it
OnDisk(h, budget) ==
    /\ log = FileOf(h)
    /\ index = EmptyIndex
    /\ max_size = 0
    /\ engine = "closed"
    /\ written = LastWrites(h, [k \in Keys |-> NeverWritten])
    /\ last = [op |-> "none", key |-> << >>, res |-> Ok]
    /\ ops = budget
    /\ pc = [t \in Threads |-> "idle"]
    /\ req = [t \in Threads |-> NoRequest]
    /\ info = [t \in Threads |-> NoEntry]
    /\ before = [t \in Threads |-> 0]
    /\ built = [t \in Threads |-> NoBuilt]
    /\ gate = [writer |-> 0, readers |-> {}]
    /\ res = [t \in Threads |-> Absent]
    /\ allowed = [t \in Threads |-> {}]
    /\ watch = [t \in Threads |-> NoWatch]
    /\ fault = NoFault
    /\ arg = << >>
    /\ out = NoOut

InitFaults == \E h \in FaultHistories : OnDisk(h, MaxFaultOps)

\* the elements of a sequence
Range(seq) == {seq[j] : j \in 1..Len(seq)}

\* every byte of the file belongs to a frame with a matching checksum
AllValid(file) ==
    /\ FullyParsed(file)
    /\ \A r \in Range(LogRecords(file)) : r.checksum_ok

\* the value a damaged byte takes: the other entry type for a type byte (at
\* position 0 of its frame), the next byte value elsewhere
Damaged(p, byte) == IF p = 0 THEN 1 - byte ELSE (byte + 1) % 256

\* one byte of a complete frame changes on disk: its type byte, or a byte of
\* its key, its value or its checksum trailer (the length fields are left
\* alone, so the frame stays a complete frame with the same bounds)
Corrupt ==
    /\ fault.kind = "none" /\ engine \in {"closed", "open"}
    /\ AllValid(log)
    /\ \E r \in Range(LogRecords(log)) : \E i \in CorruptSpots(r) :
          log' = [log EXCEPT ![i + 1] = Damaged(i - r.offset, @)]
    /\ fault' = [kind |-> "corrupt", good |-> log, bad |-> log']
    /\ UNCHANGED <<index, max_size, engine, history, threads, arg, out>>

\* a crash of an earlier run left the first n bytes of one more frame
Tear(f, n) ==
    /\ fault.kind = "none" /\ engine = "closed"
    /\ log' = log \o SubSeq(f, 1, n)
    /\ fault' = [kind |-> "torn", good |-> log, bad |-> log']
    /\ UNCHANGED <<index, max_size, engine, history, threads, arg, out>>

\* the file loses its last n bytes while the engine is open
Chop(n) ==
    /\ fault.kind = "none" /\ engine = "open"
    /\ n <= Len(log)
    /\ log' = SubSeq(log, 1, Len(log) - n)
    /\ fault' = [kind |-> "chopped", good |-> log, bad |-> log']
    /\ UNCHANGED <<index, max_size, engine, history, threads, arg, out>>

\* MyDatabase::new on the file as it is
Open ==
    /\ engine = "closed"
    /\ \E r \in {RecoverIndex(log)} :
          /\ index' = r.index
          /\ engine' = IF r.ok THEN "open" ELSE "failed"
          /\ last' = [op |-> "open", key |-> << >>, res |-> Unit(r)]
    /\ UNCHANGED <<log, fixed, written, ops, threads>>

\* a faulty failed append that has already pointed the index at the frame;
\* FailedAppendKeepsState is sensitive to the difference
FailedAppendIndexed(file, idx, key, bytes, n) ==
    [log |-> file \o SubSeq(bytes, 1, n),
     index |-> IndexInsert(idx, key,
                           [offset |-> SeekEnd(file), size |-> FrameSize(bytes)])]

\* db.rs:123-125 / 188-190 with an error from seek, write_all or flush after
\* n bytes of the frame reached the file: `?` returns before index.insert
FailedAppend(file, idx, key, bytes, n) ==
    [log |-> file \o SubSeq(bytes, 1, n), index |-> idx]

\* set(key, value) whose append fails
SetFails(k, v, n) ==
    /\ engine = "open" /\ ops > 0
    /\ \E a \in {FailedAppend(log, index, k, SetEntry(k, v), n)} :
          /\ log' = a.log
          /\ index' = a.index
    /\ last' = [op |-> "set", key |-> k, res |-> Failure("Io")]
    /\ ops' = ops - 1
    /\ UNCHANGED <<fixed, engine, written, threads>>

\* delete(key) whose append fails
DeleteFails(k, n) ==
    /\ engine = "open" /\ ops > 0
    /\ \E a \in {FailedAppend(log, index, k, DeleteEntry(k), n)} :
          /\ log' = a.log
          /\ index' = a.index
    /\ last' = [op |-> "delete", key |-> k, res |-> Failure("Io")]
    /\ ops' = ops - 1
    /\ UNCHANGED <<fixed, engine, written, threads>>

\* a faulty compaction whose failing rename has replaced the live log all
\* the same; FailedCompactionKeepsState is sensitive to the difference
FailedCompactRenamed(file, idx, step) ==
    [ok |-> FALSE, err |-> "Io",
     log |-> IF step = "rename" THEN Compact(file, idx).log ELSE file,
     index |-> idx]

\* compact() with an I/O error at `step` (db.rs:306-310, 319, 328, 340-347):
\* `?` returns before the live file or the index is touched
FailedCompact(file, idx, step) ==
    [ok |-> FALSE, err |-> "Io", log |-> file, index |-> idx]

\* compact() that fails at one of the steps before the rename has succeeded
CompactFails(step) ==
    /\ engine = "open" /\ ops > 0
    /\ \E c \in {FailedCompact(log, index, step)} :
          /\ log' = c.log
          /\ index' = c.index
          /\ last' = [op |-> "compact", key |-> << >>, res |-> Unit(c)]
    /\ ops' = ops - 1
    /\ UNCHANGED <<fixed, engine, written, threads>>

\* compact() with an I/O error after the reads and the temporary file
\* succeeded and the live file was touched: "reopen" is the rename done and
\* OpenOptions::open of the renamed file failing (db.rs:349-353), "retry" is
\* the remove-then-rename fallback whose remove_file succeeded and whose
\* second rename failed (db.rs:343-346), which leaves no file at file_path
\* (read here as a file without bytes: every read through the index fails).
\* `?` returns before `*index_guard = new_index` (db.rs:368).
FailedCompactLate(file, idx, step) ==
    [ok |-> FALSE, err |-> "Io",
     log |-> IF step = "reopen" THEN Compact(file, idx).log ELSE << >>,
     index |-> idx]

\* compact() that fails at one of the steps after the live file was touched;
\* shared.file still holds the handle of the file that was replaced, and
\* what the engine does after that is not followed (engine "stale")
CompactFailsLate(step) ==
    /\ engine = "open" /\ ops > 0
    /\ Compact(log, index).ok
    /\ \E c \in {FailedCompactLate(log, index, step)} :
          /\ log' = c.log
          /\ index' = c.index
          /\ last' = [op |-> "compact", key |-> << >>, res |-> Unit(c)]
    /\ engine' = "stale"
    /\ ops' = ops - 1
    /\ UNCHANGED <<fixed, written, threads>>

NextFaults ==
    \/ Corrupt
    \/ \E f \in TornFrames : \E n \in TearSizes(f) : Tear(f, n)
    \/ \E n \in ChopSizes : Chop(n)
    \/ Open
    \/ \E k \in Keys, v \in FaultValues : Set(k, v)
    \/ \E k \in Keys : Delete(k)
    \/ \E k \in Keys : Get(k)
    \/ CompactOp
    \/ Reopen
    \/ \E k \in Keys, v \in FaultValues : \E n \in FailPoints(SetEntry(k, v)) : SetFails(k, v, n)
    \/ \E k \in Keys : \E n \in FailPoints(DeleteEntry(k)) : DeleteFails(k, n)
    \/ \E step \in CompactFailSteps : CompactFails(step)
    \/ \E step \in CompactLateSteps : CompactFailsLate(step)

SpecFaults == InitFaults /\ [][NextFaults]_vars

(***************************************************************************)
(* Properties of the engine on a damaged file or with failing I/O.         *)
(***************************************************************************)
\* C12: corrupted on open.  Opening (or reopening) a log in which one
\* complete frame, whatever frames follow it, no longer matches its checksum
\* trailer fails with CorruptedData and yields no engine.
CorruptedOnOpen ==
    [][(fault.kind = "corrupt" /\ log = fault.bad /\ (Open \/ Reopen))
          => (last'.res = Failure("CorruptedData") /\ engine' = "failed")]_vars

\* C12 witness: the open failed on a three-frame log whose middle frame (the
\* last but one) had a byte changed.
CorruptedOnOpenWitness ==
    /\ engine = "failed" /\ last.op = "open"
    /\ last.res = Failure("CorruptedData")
    /\ fault.kind = "corrupt" /\ log = fault.bad
    /\ Len(LogRecords(fault.good)) = 3
    /\ \E i \in (LogRecords(fault.good)[2].offset + 1)..LogRecords(fault.good)[3].offset :
          fault.good[i] # fault.bad[i]

\* C13: torn tail tolerance.  Opening a log made of complete valid frames
\* followed by a strict, nonempty prefix of one more frame succeeds, and the
\* index is the one recovered from the complete frames alone.
TornTailTolerated ==
    [][(fault.kind = "torn" /\ log = fault.bad /\ Open)
          => /\ engine' = "open" /\ last'.res = Ok
             /\ RecoverIndex(fault.good).ok
             /\ index' = RecoverIndex(fault.good).index]_vars

\* C13 witness: the engine is open on a log whose tail is a complete header
\* followed by a cut body.
TornTailToleratedWitness ==
    /\ engine = "open" /\ last.op = "open" /\ ops = MaxFaultOps
    /\ fault.kind = "torn" /\ log = fault.bad
    /\ Len(fault.bad) > Len(fault.good) + HeaderLen
    /\ DOMAIN index = Keys

\* C14 (as claimed): after an open on a log with a torn tail, a set or a
\* delete (with no compaction in between) leaves a log on which a new engine
\* opens, giving every key the get result it has now.
TornTailRecoveryEquivalence ==
    [][(/\ fault.kind = "torn" /\ log = fault.bad
        /\ last.op = "open" /\ last.res = Ok
        /\ last'.op \in {"set", "delete"} /\ last'.res = Ok
        /\ \/ \E k \in Keys, v \in FaultValues : Set(k, v)
           \/ \E k \in Keys : Delete(k))
          => /\ RecoverIndex(log').ok
             /\ \A k \in Keys :
                   GetAt(log', RecoverIndex(log').index, k) = GetAt(log', index', k)]_vars

\* the region the entry names ends beyond the end of the file, or the sum of
\* its bytes before the trailer differs from the trailer
BadRegion(file, entry) ==
    \/ entry.offset + entry.size > Len(file)
    \/ Checksum(Slice(file, entry.offset, entry.offset + entry.size - ChecksumLen))
          # StoredChecksum(Slice(file, entry.offset + entry.size - ChecksumLen,
                                 entry.offset + entry.size))

\* C15 (as claimed): get(k) returns CorruptedData whenever the frame that
\* index[k] names is truncated or fails its checksum, for Data and Tombstone
\* frames alike.
GetReportsCorruption ==
    engine = "open" =>
        \A k \in DOMAIN index :
            BadRegion(log, index[k]) => GetNow(k) = Failure("CorruptedData")

\* every region the index names lies inside the file, as it does in every
\* state the engine reaches by its own operations
IndexInFile ==
    \A k \in DOMAIN index : index[k].offset + index[k].size <= Len(log)

\* C16: a set or delete whose append fails returns the I/O error, leaves the
\* index as it was and every get with the result it had.  The file may hold
\* damaged bytes and the failed append may have left part of its frame; the
\* file has not been cut short underneath the index.
FailedAppendKeepsState ==
    [][(/\ IndexInFile
        /\ last'.op \in {"set", "delete"} /\ last'.res # Ok
        /\ \/ \E v \in FaultValues :
                 /\ Len(log') - Len(log) \in FailPoints(SetEntry(last'.key, v))
                 /\ SetFails(last'.key, v, Len(log') - Len(log))
           \/ /\ Len(log') - Len(log) \in FailPoints(DeleteEntry(last'.key))
              /\ DeleteFails(last'.key, Len(log') - Len(log)))
          => /\ last'.res = Failure("Io")
             /\ index' = index
             /\ \A k \in Keys : GetAt(log', index', k) = GetAt(log, index, k)]_vars

\* C16 witness: a set has failed after part of its frame reached the file,
\* and the other key still reads as its value.
FailedAppendKeepsStateWitness ==
    /\ last.op = "set" /\ last.res = Failure("Io")
    /\ fault.kind = "none"
    /\ ~FullyParsed(log)
    /\ last.key = K1
    /\ GetNow(K2) = SomeVal(<<7, 7, 7, 7>>)
    /\ GetNow(K1) = SomeVal(<<7>>)

\* C17: a compact() that fails before its rename has succeeded (reading a
\* live frame, creating or writing the temporary file, the rename) leaves
\* the log and the index as they were, and the engine goes on serving: a set
\* followed by a get of the key returns the value set.
FailedCompactionKeepsState ==
    [][(/\ last'.op = "compact" /\ last'.res.tag = "Err"
        /\ (\E step \in CompactFailSteps : CompactFails(step)) \/ CompactOp)
          => /\ log' = log /\ index' = index /\ engine' = "open"
             /\ \A k \in Keys, v \in FaultValues :
                   \A a \in {AppendFrame(log', index', k, SetEntry(k, v))} :
                       GetAt(a.log, a.index, k) = SomeVal(v)]_vars

\* C17 witness: compact() has failed with CorruptedData while reading a live
\* frame that was damaged on disk.
FailedCompactionKeepsStateWitness ==
    /\ last.op = "compact" /\ last.res = Failure("CorruptedData")
    /\ fault.kind = "corrupt"
    /\ engine = "open"
    /\ DOMAIN index = Keys

\* C32 (as claimed): a compact() that returns an error at any step, the
\* reopen after a successful rename and the failed retry of the fallback
\* included, leaves the index and the live log consistent: if every index
\* entry named a frame of its key before, it does so after (I1), and get
\* returns for every key what it returned before.
FailedCompactionStaysConsistent ==
    [][(/\ last'.op = "compact" /\ last'.res.tag = "Err"
        /\ ops' = ops - 1
        /\ \A k \in DOMAIN index : OneFrameOf(log, index[k], k))
          => /\ \A k \in DOMAIN index' : OneFrameOf(log', index'[k], k)
             /\ \A k \in Keys : GetAt(log', index', k) = GetAt(log, index, k)]_vars

(***************************************************************************)
(* The codecs as pure functions (SpecCodec): a byte string is built one    *)
(* byte at a time and handed to the value codec or, split into a key and   *)
(* a value, to the record codec; a byte of the frame may then change.      *)
(***************************************************************************)
\* the bytes the inputs are made of
CodecBytes == {7, 200}

\* what is added, modulo 256, to the byte that changes
ByteDeltas == {1, 128, 255}

\* the entry_type values of DataEntry
EntryTypes == {DataType, TombstoneType}

InitCodec == OnDisk(<< >>, 0)

\* one more byte of input, as long as no codec has been applied
Extend(b) ==
    /\ engine = "closed" /\ out.op = "none" /\ Len(arg) < MaxInputLen
    /\ arg' = Append(arg, b)
    /\ out' = NoOut
    /\ UNCHANGED <<log, index, max_size, engine, fault, history, threads>>

\* lz77_decode(lz77_encode(arg))
ValueRoundTrip ==
    /\ engine = "closed" /\ out.op = "none"
    /\ \E enc \in {Lz77Encode(arg)} :
          out' = [op |-> "value", enc |-> enc, dec |-> Lz77Decode(enc)]
    /\ UNCHANGED <<log, index, max_size, engine, fault, arg, history, threads>>

\* to_bytes of the entry whose key is the first n bytes of arg and whose
\* value is the rest, then decode_buffer of the frame under the same key
FrameRoundTrip(kind, n) ==
    /\ engine = "closed" /\ out.op = "none"
    /\ \E key \in {SubSeq(arg, 1, n)}, value \in {SubSeq(arg, n + 1, Len(arg))} :
          \E bytes \in {ToBytes(kind, key, value)} :
              out' = [op |-> "frame", kind |-> kind, key |-> key, value |-> value,
                      bytes |-> bytes, dec |-> DecodeBuffer(bytes, key)]
    /\ UNCHANGED <<log, index, max_size, engine, fault, arg, history, threads>>

\* one byte of the header or the payload of the frame changes; out.dec stays
\* what decoding gave before the change
ChangeByte(i, d) ==
    /\ engine = "closed" /\ out.op = "frame"
    /\ i < Len(out.bytes) - ChecksumLen
    /\ out' = [out EXCEPT !.op = "changed",
                          !.bytes[i + 1] = (@ + d) % 256]
    /\ UNCHANGED <<log, index, max_size, engine, fault, arg, history, threads>>

NextCodec ==
    \/ \E b \in CodecBytes : Extend(b)
    \/ ValueRoundTrip
    \/ \E kind \in EntryTypes : \E n \in 0..Len(arg) : FrameRoundTrip(kind, n)
    \/ \E i \in 0..(HeaderLen + MaxInputLen - 1), d \in ByteDeltas : ChangeByte(i, d)

SpecCodec == InitCodec /\ [][NextCodec]_vars

RECURSIVE PlainSum(_)
\* the sum of the bytes as a natural number
PlainSum(bytes) ==
    IF bytes = << >> THEN 0 ELSE Head(bytes) + PlainSum(Tail(bytes))

\* the frame without its trailer, and its trailer
BodyOf(bytes) == Slice(bytes, 0, Len(bytes) - ChecksumLen)
TrailerOf(bytes) == Slice(bytes, Len(bytes) - ChecksumLen, Len(bytes))

\* C18: value codec round trip.  Decoding the encoding of any byte string
\* (empty, one byte, all bytes equal, no repetition) succeeds and gives the
\* byte string back.
ValueRoundTrips ==
    out.op = "value" => out.dec = [ok |-> TRUE, out |-> arg]

\* C18 witness: five equal bytes were encoded as one literal and one match
\* of distance 1 and length 4, which reads the bytes it is writing.
ValueRoundTripsWitness ==
    /\ out.op = "value"
    /\ arg = <<7, 7, 7, 7, 7>>
    /\ out.enc = <<0, 1, 7, 1, 0, 1, 4>>
    /\ out.dec.ok /\ out.dec.out = arg

\* C19: frame round trip.  The frame of an entry is 13 + key_len + val_len
\* bytes long, with key_len the length of the key and val_len the length of
\* the encoded value as the header states them; decoding it under the same
\* key gives the value for a Data entry and absent for a Tombstone entry.
FrameRoundTrips ==
    out.op = "frame" =>
        /\ FromBE32(Slice(out.bytes, 1, 5)) = Len(out.key)
        /\ FromBE32(Slice(out.bytes, 5, 9)) = Len(Lz77Encode(out.value))
        /\ Len(out.bytes) = HeaderLen + ChecksumLen + FromBE32(Slice(out.bytes, 1, 5))
                              + FromBE32(Slice(out.bytes, 5, 9))
        /\ out.dec = IF out.kind = DataType THEN SomeVal(out.value) ELSE Absent

\* C19 witness: a Data frame with a one-byte key and a value that the codec
\* shortens has been decoded to its value.
FrameRoundTripsWitness ==
    /\ out.op = "frame" /\ out.kind = DataType
    /\ out.key = <<200>> /\ out.value = <<7, 7, 7, 7>>
    /\ Len(out.bytes) = 13 + 1 + 7
    /\ out.dec = SomeVal(<<7, 7, 7, 7>>)

\* C20: checksum integrity.  The trailer of a frame is the big-endian sum of
\* the bytes before it, and after any change of one byte of the header or
\* the payload the sum of the bytes before the trailer differs from it.
ChecksumDetectsChange ==
    /\ out.op = "frame" =>
          /\ TrailerOf(out.bytes) = BE32(PlainSum(BodyOf(out.bytes)))
          /\ Checksum(BodyOf(out.bytes)) = StoredChecksum(TrailerOf(out.bytes))
    /\ out.op = "changed" =>
          /\ PlainSum(BodyOf(out.bytes)) # FromBE32(TrailerOf(out.bytes))
          /\ Checksum(BodyOf(out.bytes)) # StoredChecksum(TrailerOf(out.bytes))

\* C20 witness: the last payload byte of a frame whose bytes sum to more
\* than 255 has changed, and decoding reports the mismatch.
ChecksumDetectsChangeWitness ==
    /\ out.op = "changed" /\ out.kind = DataType
    /\ out.key = <<200>> /\ out.value = <<200>>
    /\ out.bytes[Len(out.bytes) - ChecksumLen] # 200
    /\ FromBE32(TrailerOf(out.bytes)) > 255
    /\ DecodeBuffer(out.bytes, out.key) = Failure("CorruptedData")

RECURSIVE MatchedFrom(_, _)
\* the positions from i on at which the loop of lz77_encode emits a
\* back-reference (a match of MinMatchLen bytes or more)
MatchedFrom(input, i) ==
    IF i >= Len(input) THEN {}
    ELSE IF FindLongestMatch(input, i)[2] >= MinMatchLen
         THEN {i} \cup MatchedFrom(input, i + FindLongestMatch(input, i)[2])
         ELSE MatchedFrom(input, i + 1)

\* the distances of the window positions that give a match of len bytes at pos
DistancesOf(input, pos, len) ==
    {pos - j : j \in {x \in Max(pos - Window, 0)..(pos - 1) :
                         MatchLenFrom(input, x, pos, 0) = len}}

\* C30 (as claimed): encoder tie-break.  At every position where encode
\* emits a back-reference, its distance is the smallest among the window
\* positions that give the longest match.
NearestMatchOnTie ==
    out.op = "value" =>
        \A pos \in MatchedFrom(arg, 0) :
            \A d \in DistancesOf(arg, pos, FindLongestMatch(arg, pos)[2]) :
                FindLongestMatch(arg, pos)[1] <= d

(***************************************************************************)
(* The value decoder on arbitrary streams (SpecDecoder): a stream is built *)
(* one byte at a time from tags, lengths and distances, then decoded.      *)
(***************************************************************************)
\* the bytes the streams are made of: the two tags, an unknown tag, lengths
\* and distances from 0 to 3
StreamBytes == {0, 1, 2, 3}

\* one more byte of stream, as long as it has not been decoded
ExtendStream(b) ==
    /\ engine = "closed" /\ out.op = "none" /\ Len(arg) < MaxStreamLen
    /\ arg' = Append(arg, b)
    /\ UNCHANGED <<log, index, max_size, engine, fault, out, history, threads>>

\* lz77_decode(arg)
Decode ==
    /\ engine = "closed" /\ out.op = "none"
    /\ out' = [op |-> "decode", dec |-> Lz77Decode(arg)]
    /\ UNCHANGED <<log, index, max_size, engine, fault, arg, history, threads>>

NextDecoder ==
    \/ \E b \in StreamBytes : ExtendStream(b)
    \/ Decode

SpecDecoder == InitCodec /\ [][NextDecoder]_vars

RECURSIVE Malformed(_, _, _)
\* the stream, read chunk by chunk from byte i with n bytes decoded so far,
\* holds an unknown tag, a literal chunk without its length byte, with
\* length 0 or with fewer payload bytes than its length, or a back-reference
\* chunk without its three bytes, with distance 0 or with a distance above n
Malformed(input, i, n) ==
    IF i >= Len(input) THEN FALSE
    ELSE CASE input[i + 1] = 0 ->
                \/ i + 1 >= Len(input)
                \/ input[i + 2] = 0
                \/ i + 2 + input[i + 2] > Len(input)
                \/ Malformed(input, i + 2 + input[i + 2], n + input[i + 2])
           [] input[i + 1] = 1 ->
                \/ i + 3 >= Len(input)
                \/ input[i + 2] * 256 + input[i + 3] = 0
                \/ input[i + 2] * 256 + input[i + 3] > n
                \/ Malformed(input, i + 4, n + input[i + 4])
           [] OTHER -> TRUE

\* C25: value decoder errors.  For every stream that holds an unknown tag, a
\* truncated chunk header or payload, a literal of length 0, a back-reference
\* of distance 0 or one whose distance exceeds the bytes decoded so far,
\* decode returns InvalidFormat and no value.
DecoderRejectsMalformed ==
    (out.op = "decode" /\ Malformed(arg, 0, 0))
        => out.dec = [ok |-> FALSE, out |-> << >>]

\* C25 witness: a literal of one byte followed by a back-reference of
\* distance 2, one more than the bytes decoded, was rejected.
DecoderRejectsMalformedWitness ==
    /\ out.op = "decode"
    /\ arg = <<0, 1, 3, 1, 0, 2, 1>>
    /\ Malformed(arg, 0, 0)
    /\ ~out.dec.ok

(***************************************************************************)
(* The log iterator on files as they are on disk (SpecIter): the LOG       *)
(* command of main.rs opens an iterator and calls next until it yields     *)
(* None; one byte of the file may change from outside, once.               *)
(***************************************************************************)
\* the files on disk: the empty file, two frames, three frames with a
\* tombstone
IterHistories ==
    { << >>,
      << WSet(K1, <<7, 7>>), WSet(K2, <<7>>) >>,
      << WSet(K1, <<7>>), WDel(K1), WSet(K2, << >>) >> }

\* a kind byte that is neither Data nor Tombstone
InvalidType == 2

InitIter == \E h \in IterHistories : OnDisk(h, 0)

\* the type byte of one frame becomes a byte that names no entry type
Spoil ==
    /\ fault.kind = "none" /\ engine = "closed"
    /\ AllValid(log)
    /\ \E r \in Range(LogRecords(log)) :
          log' = [log EXCEPT ![r.offset + 1] = InvalidType]
    /\ fault' = [kind |-> "spoiled", good |-> log, bad |-> log']
    /\ UNCHANGED <<index, max_size, engine, history, threads, arg, out>>

\* log_iter(): the file is opened, the cursor and reader.offset are 0
\* (out.file remembers the file the iterator was opened on)
IterOpen ==
    /\ engine = "closed" /\ out.op = "none"
    /\ out' = [op |-> "iter", file |-> log, pos |-> 0, offset |-> 0,
               items |-> << >>]
    /\ UNCHANGED <<log, index, max_size, engine, history, threads, fault, arg>>

\* the iterator has yielded None
Ended(items) == items # << >> /\ items[Len(items)].tag = "End"

\* a faulty step of the loop that drops a record whose checksum does not match
IterNextDropsBad ==
    /\ out.op = "iter" /\ ~Ended(out.items)
    /\ \E n \in {LogIterNext(log, out.pos, out.offset)} :
          out' = [out EXCEPT !.pos = n.pos, !.offset = n.offset,
                             !.items = IF n.tag = "Rec" /\ ~n.rec.checksum_ok
                                       THEN @
                                       ELSE Append(@, [tag |-> n.tag, err |-> n.err,
                                                       rec |-> n.rec])]
    /\ UNCHANGED <<log, index, max_size, engine, history, threads, fault, arg>>

\* one turn of `for (idx, record) in iter.flatten().enumerate()`
\* (main.rs:147): next() is called; a record is reported, an error element
\* is passed over, None ends the loop
IterNext ==
    /\ out.op = "iter" /\ ~Ended(out.items)
    /\ \E n \in {LogIterNext(log, out.pos, out.offset)} :
          out' = [out EXCEPT !.pos = n.pos, !.offset = n.offset,
                             !.items = Append(@, [tag |-> n.tag, err |-> n.err,
                                                  rec |-> n.rec])]
    /\ UNCHANGED <<log, index, max_size, engine, history, threads, fault, arg>>

NextIter ==
    \/ Spoil
    \/ Corrupt
    \/ IterOpen
    \/ IterNext

SpecIter == InitIter /\ [][NextIter]_vars

\* C28 (as claimed): an error element terminates log iteration.  After the
\* iterator has yielded an error, every later call of next yields nothing.
ErrorEndsIteration ==
    out.op = "iter" =>
        \A i \in DOMAIN out.items : \A j \in DOMAIN out.items :
            (i < j /\ out.items[i].tag = "Err") => out.items[j].tag = "End"

\* the offset at which the i-th frame of the writes h starts in their file
StartOf(h, i) == Len(FileOf(SubSeq(h, 1, i - 1)))

\* the bytes of the file where the i-th frame of the writes h lies
RegionOf(file, h, i) ==
    Slice(file, StartOf(h, i), StartOf(h, i) + Len(FrameOf(h[i])))

\* C29: on a log of n complete frames with valid kind bytes the iterator
\* yields exactly n records in file order and then ends.  Record i has the
\* kind byte and the key that frame i has on disk, offset = the sum of the
\* sizes of the frames before it, size = 13 + key_len + val_len = the length
\* of the frame; a frame whose bytes no longer match its checksum is yielded
\* with checksum_ok = FALSE, a sound frame with checksum_ok = TRUE.
IterYieldsEveryFrame ==
    (out.op = "iter" /\ out.file = log /\ fault.kind \in {"none", "corrupt"}) =>
        \A h \in IterHistories :
            FileOf(h) = (IF fault.kind = "none" THEN log ELSE fault.good) =>
                /\ Len(out.items) <= Len(h) + 1
                /\ \A i \in DOMAIN out.items :
                      IF i = Len(h) + 1 THEN out.items[i].tag = "End"
                      ELSE /\ out.items[i].tag = "Rec"
                           /\ out.items[i].rec.entry_type = RegionOf(log, h, i)[1]
                           /\ out.items[i].rec.key =
                                  Slice(RegionOf(log, h, i), HeaderLen,
                                        HeaderLen + Len(h[i].key))
                           /\ out.items[i].rec.offset = StartOf(h, i)
                           /\ out.items[i].rec.size = Len(FrameOf(h[i]))
                           /\ out.items[i].rec.size =
                                  HeaderLen + ChecksumLen + Len(out.items[i].rec.key)
                                      + out.items[i].rec.value_len
                           /\ out.items[i].rec.value_len =
                                  FromBE32(Slice(RegionOf(log, h, i), 5, 9))
                           /\ out.items[i].rec.checksum_ok =
                                  (RegionOf(log, h, i) = FrameOf(h[i]))

\* the iterator ran to its end over three frames of which the second one
\* no longer matches its checksum
IterYieldsEveryFrameWitness ==
    /\ out.op = "iter" /\ out.file = log /\ fault.kind = "corrupt"
    /\ Ended(out.items) /\ Len(out.items) = 4
    /\ ~out.items[2].rec.checksum_ok
    /\ out.items[1].rec.checksum_ok /\ out.items[3].rec.checksum_ok

(***************************************************************************)
(* The three locks of SharedState (SpecLocks): shared.access (RwLock),     *)
(* shared.file (Mutex) and shared.index (RwLock), each acquisition a step  *)
(* of its own.  pc[t] says where thread t is: at a label where it waits    *)
(* for a lock, or inside the section it entered by taking one.  `gate` is  *)
(* shared.access; who holds shared.file and shared.index follows from pc.  *)
(* Lock poisoning (a panic under a lock) is outside the model.             *)
(***************************************************************************)
\* the log the engine is opened on and the value the sets write
LockHistories == { << WSet(K2, <<7, 7, 7, 7>>), WSet(K1, <<7>>) >> }
LockValues == {<<7>>}

InitLocks == \E h \in LockHistories : Opened(h, MaxLockOps)

\* the lock a thread at label p is about to take
Wanted(p) ==
    CASE p \in {"wAccess", "cAccess"} -> "access.write"
      [] p = "gAccess" -> "access.read"
      [] p \in {"wFile", "cFile", "cFile2"} -> "file"
      [] p \in {"wIndex", "cIndexW"} -> "index.write"
      [] p \in {"cIndexR", "gIndex"} -> "index.read"
      [] OTHER -> "none"

\* where the thread is once it has the lock it wanted at label p
Taken(p) ==
    CASE p = "wAccess" -> "wFile"
      [] p = "wFile" -> "wAppend"
      [] p = "wIndex" -> "wInsert"
      [] p = "cAccess" -> "cIndexR"
      [] p = "cIndexR" -> "cBuild"
      [] p = "cFile" -> "cRename"
      [] p = "cFile2" -> "cSwap"
      [] p = "cIndexW" -> "cInstall"
      [] p = "gIndex" -> "gLookup"
      [] p = "gAccess" -> "gRead"

\* the guards a thread holds at its label
HoldsFile(u) == pc[u] \in {"wAppend", "cRename", "cSwap"}
HoldsIndexWrite(u) == pc[u] \in {"wInsert", "cInstall"}
HoldsIndexRead(u) == pc[u] \in {"cBuild", "gLookup"}

\* thread u holds a guard that keeps thread t from the lock it wants; the
\* locks are not reentrant, so u may be t itself
Blocks(u, t) ==
    CASE Wanted(pc[t]) = "access.write" -> gate.writer = u \/ u \in gate.readers
      [] Wanted(pc[t]) = "access.read" -> gate.writer = u
      [] Wanted(pc[t]) = "file" -> HoldsFile(u)
      [] Wanted(pc[t]) = "index.write" -> HoldsIndexWrite(u) \/ HoldsIndexRead(u)
      [] Wanted(pc[t]) = "index.read" -> HoldsIndexWrite(u)
      [] OTHER -> FALSE

\* .write() / .read() / .lock() returns its guard
Lock(t) ==
    /\ Wanted(pc[t]) # "none"
    /\ \A u \in Threads : ~Blocks(u, t)
    /\ gate' = CASE Wanted(pc[t]) = "access.write" -> [gate EXCEPT !.writer = t]
                 [] Wanted(pc[t]) = "access.read" -> [gate EXCEPT !.readers = @ \cup {t}]
                 [] OTHER -> gate
    /\ pc' = [pc EXCEPT ![t] = Taken(pc[t])]
    /\ UNCHANGED <<shared, history, req, info, before, built, res, allowed, watch>>

\* set(key, value) / delete(key) is called: the frame is built (db.rs:102-108)
StartWrite(t, op, kind, k, v) ==
    /\ engine = "open" /\ ops > 0 /\ pc[t] = "idle"
    /\ req' = [req EXCEPT ![t] = [op |-> op, kind |-> kind, key |-> k, val |-> v]]
    /\ pc' = [pc EXCEPT ![t] = "wAccess"]
    /\ ops' = ops - 1
    /\ UNCHANGED <<shared, written, last, info, before, built, gate, res, allowed, watch>>

\* compact() is called by the user
StartCompact(t) ==
    /\ engine = "open" /\ ops > 0 /\ pc[t] = "idle"
    /\ req' = [req EXCEPT ![t] = [op |-> "compact", kind |-> "none", key |-> << >>, val |-> << >>]]
    /\ pc' = [pc EXCEPT ![t] = "cAccess"]
    /\ ops' = ops - 1
    /\ UNCHANGED <<shared, written, last, info, before, built, gate, res, allowed, watch>>

\* get(key) is called
StartGet(t, k) ==
    /\ engine = "open" /\ ops > 0 /\ pc[t] = "idle"
    /\ req' = [req EXCEPT ![t] = [op |-> "get", kind |-> "none", key |-> k, val |-> << >>]]
    /\ pc' = [pc EXCEPT ![t] = "gIndex"]
    /\ ops' = ops - 1
    /\ UNCHANGED <<shared, written, last, info, before, built, gate, res, allowed, watch>>

\* db.rs:123-127: seek to the end, write the frame, flush; the file guard
\* is dropped at the end of the block
AppendLocked(t) ==
    /\ pc[t] = "wAppend"
    /\ log' = log \o FrameOf(req[t])
    /\ info' = [info EXCEPT ![t] = [offset |-> SeekEnd(log),
                                    size |-> FrameSize(FrameOf(req[t]))]]
    /\ pc' = [pc EXCEPT ![t] = "wIndex"]
    /\ UNCHANGED <<index, fixed, engine, history, req, before, built, gate, res,
                   allowed, watch>>

\* a faulty insert that keeps the access guard alive into maybe_compact
InsertKeepsAccess(t) ==
    /\ pc[t] = "wInsert"
    /\ index' = IndexInsert(index, req[t].key, info[t])
    /\ info' = [info EXCEPT ![t] = NoEntry]
    /\ pc' = [pc EXCEPT ![t] = "mSize"]
    /\ UNCHANGED <<log, fixed, engine, history, req, before, built, gate, res,
                   allowed, watch>>

\* db.rs:134-135: insert the entry; the index guard and the access guard
\* are dropped at the end of the block, before maybe_compact is called
InsertLocked(t) ==
    /\ pc[t] = "wInsert"
    /\ index' = IndexInsert(index, req[t].key, info[t])
    /\ info' = [info EXCEPT ![t] = NoEntry]
    /\ gate' = [gate EXCEPT !.writer = 0]
    /\ pc' = [pc EXCEPT ![t] = "mSize"]
    /\ UNCHANGED <<log, fixed, engine, history, req, before, built, res,
                   allowed, watch>>

\* maybe_compact, db.rs:378-387
SizeCheck(t) ==
    /\ pc[t] = "mSize"
    /\ IF max_size = 0 \/ Len(log) < max_size
       THEN /\ Returned(t)
            /\ before' = [before EXCEPT ![t] = 0]
       ELSE /\ pc' = [pc EXCEPT ![t] = "cAccess"]
            /\ before' = [before EXCEPT ![t] = Len(log)]
            /\ UNCHANGED req
    /\ UNCHANGED <<shared, history, info, built, gate, res, allowed, watch>>

\* db.rs:278-329: under the index read guard take the snapshot and drop the
\* guard; read the live entries, write the temporary file and new_index; an
\* error returns and drops the access guard
BuildLocked(t) ==
    /\ pc[t] = "cBuild"
    /\ \E c \in {Compact(log, index)} :
          IF c.ok
          THEN /\ built' = [built EXCEPT ![t] = [log |-> c.log, index |-> c.index]]
               /\ pc' = [pc EXCEPT ![t] = "cFile"]
               /\ UNCHANGED <<req, before, gate>>
          ELSE /\ Returned(t)
               /\ before' = [before EXCEPT ![t] = 0]
               /\ gate' = [gate EXCEPT !.writer = 0]
               /\ UNCHANGED built
    /\ UNCHANGED <<shared, history, info, res, allowed, watch>>

\* db.rs:331-347: the file guard is dropped, the temporary file is renamed
\* over the log path
RenameLocked(t) ==
    /\ pc[t] = "cRename"
    /\ log' = built[t].log
    /\ pc' = [pc EXCEPT ![t] = "cFile2"]
    /\ UNCHANGED <<index, fixed, engine, history, req, info, before, built,
                   gate, res, allowed, watch>>

\* db.rs:349-361: the handle of the reopened log is stored under the file
\* guard
SwapLocked(t) ==
    /\ pc[t] = "cSwap"
    /\ pc' = [pc EXCEPT ![t] = "cIndexW"]
    /\ UNCHANGED <<shared, history, req, info, before, built, gate, res,
                   allowed, watch>>

\* db.rs:363-370: the index is replaced; the index guard and the access
\* guard are dropped on return
InstallLocked(t) ==
    /\ pc[t] = "cInstall"
    /\ index' = built[t].index
    /\ built' = [built EXCEPT ![t] = NoBuilt]
    /\ gate' = [gate EXCEPT !.writer = 0]
    /\ IF req[t].op = "compact"
       THEN Returned(t)
       ELSE pc' = [pc EXCEPT ![t] = "mAfter"] /\ UNCHANGED req
    /\ UNCHANGED <<log, fixed, engine, history, info, before, res, allowed, watch>>

\* maybe_compact, db.rs:389-392
AfterCheck(t) ==
    /\ pc[t] = "mAfter"
    /\ IF Len(log) >= before[t]
       THEN /\ Returned(t)
            /\ before' = [before EXCEPT ![t] = 0]
       ELSE /\ pc' = [pc EXCEPT ![t] = "mSize"]
            /\ UNCHANGED <<before, req>>
    /\ UNCHANGED <<shared, history, info, built, gate, res, allowed, watch>>

\* get, db.rs:143-153: the lookup under the index read guard, dropped at
\* the end of the block; a key that is not in the index returns Ok(None)
LookupLocked(t) ==
    /\ pc[t] = "gLookup"
    /\ IF req[t].key \in DOMAIN index
       THEN /\ info' = [info EXCEPT ![t] = index[req[t].key]]
            /\ pc' = [pc EXCEPT ![t] = "gAccess"]
            /\ UNCHANGED <<req, res>>
       ELSE /\ res' = [res EXCEPT ![t] = Absent]
            /\ Returned(t)
            /\ UNCHANGED info
    /\ UNCHANGED <<shared, history, before, built, gate, allowed, watch>>

\* get, db.rs:161-163: read the frame; the access guard is dropped on return
ReadLocked(t) ==
    /\ pc[t] = "gRead"
    /\ res' = [res EXCEPT ![t] = ReadEntryValue(log, info[t], req[t].key)]
    /\ info' = [info EXCEPT ![t] = NoEntry]
    /\ gate' = [gate EXCEPT !.readers = @ \ {t}]
    /\ Returned(t)
    /\ UNCHANGED <<shared, history, before, built, allowed, watch>>

\* the steps of an operation that has started
Continue(t) ==
    \/ Lock(t)
    \/ AppendLocked(t)
    \/ InsertLocked(t)
    \/ SizeCheck(t)
    \/ BuildLocked(t)
    \/ RenameLocked(t)
    \/ SwapLocked(t)
    \/ InstallLocked(t)
    \/ AfterCheck(t)
    \/ LookupLocked(t)
    \/ ReadLocked(t)

NextLocks ==
    \E t \in Threads :
        \/ \E k \in Keys, v \in LockValues : StartWrite(t, "set", "set", k, v)
        \/ \E k \in Keys : StartWrite(t, "delete", "del", k, << >>)
        \/ StartCompact(t)
        \/ \E k \in Keys : StartGet(t, k)
        \/ Continue(t)

\* the labels of pc
LockLabels ==
    {"idle", "wAccess", "wFile", "wAppend", "wIndex", "wInsert", "mSize", "mAfter",
     "cAccess", "cIndexR", "cBuild", "cFile", "cRename", "cFile2", "cSwap",
     "cIndexW", "cInstall", "gIndex", "gLookup", "gAccess", "gRead"}

\* the thread is inside an operation and its next step can be taken: it is
\* inside a section, or the lock it waits for can be handed to it.  This is
\* the enabling condition of Continue(t).
Runnable(t) ==
    /\ pc[t] # "idle"
    /\ Wanted(pc[t]) # "none" => \A u \in Threads : ~Blocks(u, t)

\* thread t takes its next step.  Under NextLocks the steps that move pc[t]
\* on from a label other than idle are exactly the steps of Continue(t);
\* the step is named by that, without the bodies of the steps.
Advance(t) ==
    /\ Runnable(t)
    /\ pc' \in [Threads -> LockLabels]
    /\ pc'[t] # pc[t]

\* a thread that has started an operation and can take a step is given one
\* (the scheduler runs every thread, a free lock is handed to a waiter)
SpecLocks ==
    InitLocks /\ [][NextLocks]_vars /\ \A t \in Threads : WF_pc(Advance(t))

\* threads that wait for guards held inside their own group
WaitCycle ==
    \E S \in (SUBSET Threads) \ {{}} : \A t \in S : \E u \in S : Blocks(u, t)

\* C33: deadlock freedom.  In no reachable state do threads wait for one
\* another's guards in a cycle (a thread waiting for a guard it holds itself
\* included), and every operation that has started returns.
OperationsReturn ==
    /\ [](~WaitCycle)
    /\ \A t \in Threads : (pc[t] # "idle") ~> (pc[t] = "idle")

\* C33 witness: thread 1 is in the maybe_compact of its set and waits for
\* the write side of the gate, which thread 2 holds.
OperationsReturnWitness ==
    /\ pc[1] = "cAccess" /\ req[1].op = "set"
    /\ gate.writer = 2
    /\ Blocks(2, 1) /\ ~Blocks(1, 2)

====
